---- MODULE Spec2Model ----
(***************************************************************************)
(* lecture2obsidian: the recording lifecycle.                              *)
(*                                                                         *)
(* The model has three kinds of process.  A *client* is one invocation of  *)
(* the command line (app/cli.py: toggle or status).  A *unit* is one       *)
(* detached `_record` subprocess (app/cli.py: record_internal).  They      *)
(* share the marker file (app/state.py: STATE_FILE) and the process table. *)
(* Every step of a client or a unit that touches the marker file or the    *)
(* process table is one action, so that all interleavings of the system    *)
(* calls are explored.                                                     *)
(***************************************************************************)
EXTENDS Integers, Sequences, FiniteSets, TLC

\* Number of background units (process ids 1..MaxUnits) a run may launch.
MaxUnits == 2
\* Number of command-line invocations that may run concurrently.
MaxClients == 2

Units == 1..MaxUnits
Clients == 1..MaxClients

\* A process id that belongs to a live process of another user: probing or
\* signalling it is refused with EPERM.
ForeignPid == MaxUnits + 1

VARIABLES
    marker,     \* content of STATE_FILE (recording.pid)
    upc,        \* unit -> position in record_internal
    stopEvent,  \* unit -> threading.Event set by handle_sigterm
    wav,        \* unit -> where the captured WAV file is
    sent,       \* unit -> notifications the unit has sent, in order
    cleared,    \* unit -> the unit has called clear_state()
    fail,       \* unit -> how the run failed, if it did
    cpc,        \* client -> position in toggle / status
    cmd,        \* client -> command being run
    info,       \* client -> last result of get_recording_info()
    raw,        \* client -> marker content is_recording() read
    child,      \* client -> pid of the process Popen returned
    probe,      \* client -> result of os.kill(pid, 0) in is_recording()
    active,     \* client -> result of is_recording()
    tlog,       \* client -> effects of this invocation, in order
    outcome,    \* client -> how the invocation ended
    fdLive,     \* client -> its open file still is STATE_FILE
    rpc,        \* Recorder: position of the caller's thread in start / stop
    rCall,      \* Recorder: the last call made, and
    rResult,    \*           how it ended
    rRecording, \* Recorder._recording
    rStream,    \* Recorder._stream: "none", or "open" once started
    rQueue,     \* Recorder._queue
    rFrames,    \* the list `frames` of stop()
    rWav,       \* frames in the WAV file the last stop() wrote
    cbFrame,    \* block the driver thread's callback is handing over (0: none)
    rCount,     \* blocks the driver has produced so far
    rDelivered, \* blocks the callback has put since the last stream start
    tpc,        \* _transcribe_api: position
    tSize,      \* size of the audio file, in bytes
    tDuration,  \* len(audio): its duration in milliseconds
    tPlan,      \* time range of every chunk exported so far, in order
    tFiles,     \* chunk files that exist in the temporary directory
    tDir,       \* the temporary directory exists
    tCalls,     \* the calls made to the Whisper API, in order
    tParts,     \* the list `parts`
    tText,      \* the value _transcribe_api returns
    tOutcome,   \* how _transcribe_api ended
    spc,        \* summarize_transcript: position
    sWords,     \* number of words of the transcript
    sCourse,    \* the argument course ("" for None or an empty string)
    sStart,     \* _chunk_transcript: start
    sChunks,    \* _chunk_transcript: chunks, each the span of words it holds
    sCalls,     \* the calls made to the chat API, in order
    sPartials,  \* the list partial_summaries
    sResult,    \* the value summarize_transcript returns
    sOutcome,   \* how summarize_transcript ended
    apc,        \* toggle, start branch: position
    aCourse,    \* the option --course (None when not given)
    aTitle,     \* the option --title
    aDate,      \* the option --date
    aSchedule,  \* config["schedule"] for the current weekday
    aNow,       \* datetime.now() in _infer_course, in seconds since midnight
    aResolved,  \* resolved_course, resolved_title, resolved_date
    aCmd,       \* the --course, --title, --date the unit was launched with
    aState,     \* the course, title, date handed to write_state
    aOutcome,   \* how the start branch ended
    kFile,      \* STATE_FILE as one caller sees it: NoFile, or its lines
    kLog        \* the calls of write_state, get_recording_info, clear_state
                \* the caller has made, each with its result

uvars == <<upc, stopEvent, wav, sent, cleared, fail>>
cvars == <<cpc, cmd, info, raw, child, probe, active, tlog, outcome, fdLive>>
rvars == <<rpc, rCall, rResult, rRecording, rStream, rQueue, rFrames, rWav,
           cbFrame, rCount, rDelivered>>
\* The variables of the lifecycle, and those of the components that are
\* modelled on their own.
lvars == <<marker, upc, stopEvent, wav, sent, cleared, fail,
           cpc, cmd, info, raw, child, probe, active, tlog, outcome, fdLive>>
tvars == <<tpc, tSize, tDuration, tPlan, tFiles, tDir, tCalls, tParts, tText,
           tOutcome>>
svars == <<spc, sWords, sCourse, sStart, sChunks, sCalls, sPartials, sResult,
           sOutcome>>
avars == <<apc, aCourse, aTitle, aDate, aSchedule, aNow, aResolved, aCmd, aState,
           aOutcome>>
kvars == <<kFile, kLog>>
pvars == <<rvars, tvars, svars, avars, kvars>>
vars == <<lvars, pvars>>

----------------------------------------------------------------------------
(* The marker file: app/state.py *)

Absent == [kind |-> "absent", pid |-> 0]
\* open(STATE_FILE, "w") has truncated the file and nothing is written yet:
\* yaml.safe_load of an empty stream is None.
Empty == [kind |-> "empty", pid |-> 0]
\* text yaml.safe_load rejects
Unparsable == [kind |-> "unparsable", pid |-> 0]
\* a YAML document that is a scalar or a list, not a mapping
NonRecord == [kind |-> "nonrecord", pid |-> 0]
\* a mapping without a pid key (or pid: null)
NoPid == [kind |-> "nopid", pid |-> 0]
\* a mapping whose pid is not an integer
PidStr == [kind |-> "pidstr", pid |-> 0]
Record(p) == [kind |-> "record", pid |-> p]

CorruptContents == {Empty, Unparsable, NonRecord, NoPid, PidStr}
MarkerContents ==
    {Absent} \cup CorruptContents \cup {Record(p) : p \in Units \cup {ForeignPid}}

\* What get_recording_info() hands back.
NoneInfo == [kind |-> "none", pid |-> 0]
Raised == [kind |-> "raise", pid |-> 0]

\* yaml.safe_load(f): raises on text that is not YAML, None for an empty
\* stream, otherwise the document.
YamlSafeLoad(m) ==
    CASE m.kind = "unparsable" -> Raised
      [] m.kind = "empty" -> NoneInfo
      [] OTHER -> m

\* A get_recording_info without its try/except.
GetRecordingInfoNoCatch(m) ==
    IF m.kind = "absent" THEN NoneInfo ELSE YamlSafeLoad(m)

\* get_recording_info(): None when the file is missing, and None when
\* opening or parsing it raises.
GetRecordingInfo(m) ==
    IF m.kind = "absent"
    THEN NoneInfo
    ELSE IF YamlSafeLoad(m).kind = "raise" THEN NoneInfo ELSE YamlSafeLoad(m)

----------------------------------------------------------------------------
(* The process table *)

Alive(u) == upc[u] \notin {"notlaunched", "exited", "killed"}

\* os.kill(pid, 0)
ProbePid(p) ==
    IF p = ForeignPid THEN "eperm"
    ELSE IF p \in Units /\ Alive(p) THEN "ok" ELSE "esrch"

Launched == {u \in Units : upc[u] # "notlaunched"}
\* subprocess.Popen: the new process gets a fresh process id.
NextPid == Cardinality(Launched) + 1

----------------------------------------------------------------------------
(* The background unit: app/cli.py record_internal *)

\* The pipeline of record_internal, in program order: recorder.stop(),
\* load_config, transcribe_audio, summarize_transcript, write_notes,
\* _archive_wav, send_notification (success).
PipelineOrderArchiveFirst ==
    <<"stop", "config", "transcribe", "archive", "summarize", "persist", "notify_ok">>

PipelineOrder ==
    <<"stop", "config", "transcribe", "summarize", "persist", "archive", "notify_ok">>

PipelineStages == {PipelineOrder[i] : i \in 1..Len(PipelineOrder)}

StageIndex(s) == CHOOSE i \in 1..Len(PipelineOrder) : PipelineOrder[i] = s

\* The statement after stage s: the next stage, and clear_state() (line 351)
\* after the last one.
StageAfter(s) ==
    IF StageIndex(s) = Len(PipelineOrder) THEN "clear" ELSE PipelineOrder[StageIndex(s) + 1]

\* How a stage can end.  "exc" is an exception derived from Exception;
\* "exit" is sys.exit(1), that is SystemExit, which load_config (config.yaml
\* missing), _transcribe_single and transcribe_local (backend error, missing
\* package) and _call_llm (backend error) raise.  send_notification swallows
\* every exception.
StageOutcomes(s) ==
    CASE s = "stop" -> {"ok", "exc"}
      [] s = "config" -> {"ok", "exc", "exit"}
      [] s = "transcribe" -> {"ok", "exc", "exit"}
      [] s = "summarize" -> {"ok", "exc", "exit"}
      [] s = "persist" -> {"ok", "exc"}
      [] s = "archive" -> {"ok", "exc"}
      [] OTHER -> {"ok"}

\* `except Exception:` (line 340) catches Exception and not SystemExit.
CaughtByHandler(kind) == kind = "exc"

\* _archive_wav: the file is moved to archive_dir when one is configured and
\* unlinked otherwise.
ArchiveResults == {"archived", "deleted"}

\* Where the WAV file is after stage s succeeded.
WavAfter(s, w, dest) ==
    CASE s = "stop" -> "temp"
      [] s = "archive" -> dest
      [] OTHER -> w

\* An exception handler that removes the temporary file.
WavAfterFailureUnlink(w) == IF w = "temp" THEN "deleted" ELSE w

\* The exception handler (lines 340-349) only logs the path of the WAV file.
WavAfterFailure(w) == w

\* The notification a completed stage has sent: the last stage is
\* send_notification("... notes ready in Inbox"), lines 334-337.
SentAfter(s, n) == IF s = "notify_ok" THEN Append(n, "ok") ELSE n

\* A wait that does not block.
StopObservedAlways(u) == TRUE

\* stop_event.wait() (line 300) returns once handle_sigterm has set the event.
StopObserved(u) == stopEvent[u]

\* signal.signal(signal.SIGTERM, handle_sigterm)
UInstall(u) ==
    /\ upc[u] = "boot"
    /\ upc' = [upc EXCEPT ![u] = "start"]
    /\ UNCHANGED <<marker, stopEvent, wav, sent, cleared, fail, cvars>>
    /\ UNCHANGED pvars

\* recorder.start() succeeds.
UStartOk(u) ==
    /\ upc[u] = "start"
    /\ upc' = [upc EXCEPT ![u] = "wait"]
    /\ UNCHANGED <<marker, stopEvent, wav, sent, cleared, fail, cvars>>
    /\ UNCHANGED pvars

\* A unit that notifies the failure of recorder.start() and goes on to wait.
UStartFailGoesOn(u) ==
    /\ upc[u] = "start"
    /\ upc' = [upc EXCEPT ![u] = "wait"]
    /\ fail' = [fail EXCEPT ![u] = "start"]
    /\ sent' = [sent EXCEPT ![u] = Append(@, "fail")]
    /\ UNCHANGED <<marker, stopEvent, wav, cleared, cvars>>
    /\ UNCHANGED pvars

\* recorder.start() raises: the failure is notified (line 295), then
\* clear_state() and sys.exit(1).
UStartFail(u) ==
    /\ upc[u] = "start"
    /\ upc' = [upc EXCEPT ![u] = "clear"]
    /\ fail' = [fail EXCEPT ![u] = "start"]
    /\ sent' = [sent EXCEPT ![u] = Append(@, "fail")]
    /\ UNCHANGED <<marker, stopEvent, wav, cleared, cvars>>
    /\ UNCHANGED pvars

\* stop_event.wait() returns.
UWait(u) ==
    /\ upc[u] = "wait"
    /\ StopObserved(u)
    /\ upc' = [upc EXCEPT ![u] = PipelineOrder[1]]
    /\ UNCHANGED <<marker, stopEvent, wav, sent, cleared, fail, cvars>>
    /\ UNCHANGED pvars

\* A pipeline stage completes.
UStageOk(u) ==
    /\ upc[u] \in PipelineStages
    /\ "ok" \in StageOutcomes(upc[u])
    /\ \E dest \in (IF upc[u] = "archive" THEN ArchiveResults ELSE {"temp"}) :
          wav' = [wav EXCEPT ![u] = WavAfter(upc[u], @, dest)]
    /\ sent' = [sent EXCEPT ![u] = SentAfter(upc[u], @)]
    /\ upc' = [upc EXCEPT ![u] = StageAfter(upc[u])]
    /\ UNCHANGED <<marker, stopEvent, cleared, fail, cvars>>
    /\ UNCHANGED pvars

\* A pipeline stage raises kind ("exc" or "exit").  What the handler
\* catches is logged and notified as a failure, and clear_state() and
\* sys.exit(1) follow (lines 340-349); what it does not catch ends the
\* process there.
Raise(u, kind) ==
    /\ fail' = [fail EXCEPT ![u] = kind]
    /\ IF CaughtByHandler(kind)
       THEN /\ sent' = [sent EXCEPT ![u] = Append(@, "fail")]
            /\ wav' = [wav EXCEPT ![u] = WavAfterFailure(@)]
            /\ upc' = [upc EXCEPT ![u] = "clear"]
       ELSE /\ upc' = [upc EXCEPT ![u] = "exited"]
            /\ UNCHANGED <<sent, wav>>

\* A pipeline stage raises an exception derived from Exception.
UStageExc(u) ==
    /\ upc[u] \in PipelineStages
    /\ "exc" \in StageOutcomes(upc[u])
    /\ Raise(u, "exc")
    /\ UNCHANGED <<marker, stopEvent, cleared, cvars>>
    /\ UNCHANGED pvars

\* A pipeline stage calls sys.exit(1).
UStageExit(u) ==
    /\ upc[u] \in PipelineStages
    /\ "exit" \in StageOutcomes(upc[u])
    /\ Raise(u, "exit")
    /\ UNCHANGED <<marker, stopEvent, cleared, cvars>>
    /\ UNCHANGED pvars

\* clear_state(): STATE_FILE.unlink(missing_ok=True).  A file another
\* process holds open for writing is no longer the marker afterwards.
UClear(u) ==
    /\ upc[u] = "clear"
    /\ marker' = Absent
    /\ fdLive' = [c \in Clients |-> FALSE]
    /\ cleared' = [cleared EXCEPT ![u] = TRUE]
    /\ upc' = [upc EXCEPT ![u] = "exit"]
    /\ UNCHANGED <<stopEvent, wav, sent, fail,
                   cpc, cmd, info, raw, child, probe, active, tlog, outcome>>
    /\ UNCHANGED pvars

\* The process ends: the end of record_internal, or sys.exit(1).
UExit(u) ==
    /\ upc[u] = "exit"
    /\ upc' = [upc EXCEPT ![u] = "exited"]
    /\ UNCHANGED <<marker, stopEvent, wav, sent, cleared, fail, cvars>>
    /\ UNCHANGED pvars

\* The exit status of a unit that has ended.
ExitStatus(u) == IF fail[u] = "none" THEN 0 ELSE 1

----------------------------------------------------------------------------
(* The command line: app/cli.py toggle and status, app/state.py is_recording *)

Commands == {"toggle", "status"}

Event(o, p) == [op |-> o, pid |-> p]

\* The local variables of invocation c.
Locals(c) ==
    [pc |-> cpc[c], cmd |-> cmd[c], info |-> info[c], raw |-> raw[c], child |-> child[c],
     probe |-> probe[c], active |-> active[c], tlog |-> tlog[c], outcome |-> outcome[c]]

\* No process: what is left of an invocation is its exit status.
Ended(out) ==
    [pc |-> "idle", cmd |-> "none", info |-> NoneInfo, raw |-> Absent, child |-> 0,
     probe |-> "none", active |-> "unknown", tlog |-> << >>, outcome |-> out]

SetLocals(c, r) ==
    /\ cpc' = [cpc EXCEPT ![c] = r.pc]
    /\ cmd' = [cmd EXCEPT ![c] = r.cmd]
    /\ info' = [info EXCEPT ![c] = r.info]
    /\ raw' = [raw EXCEPT ![c] = r.raw]
    /\ child' = [child EXCEPT ![c] = r.child]
    /\ probe' = [probe EXCEPT ![c] = r.probe]
    /\ active' = [active EXCEPT ![c] = r.active]
    /\ tlog' = [tlog EXCEPT ![c] = r.tlog]
    /\ outcome' = [outcome EXCEPT ![c] = r.outcome]

\* Where the command goes once is_recording() has returned a: toggle (line
\* 177) stops the recording when it is active and starts one otherwise;
\* status (line 239) prints "No active recording." when there is none.
Dispatch(k, a) ==
    IF k = "status"
    THEN IF a = "yes" THEN "st_info" ELSE "echo"
    ELSE IF a = "yes" THEN "tg_info" ELSE "tg_config"

\* is_recording(), lines 24-31, on what get_recording_info() returned:
\* None gives False; info.get on a document that is no mapping raises
\* AttributeError; a mapping without pid is cleared; otherwise the pid is
\* probed.
AfterRead(i) ==
    CASE i.kind = "raise" -> "raise"
      [] i.kind = "none" -> "no"
      [] i.kind = "nonrecord" -> "raise"
      [] i.kind = "nopid" -> "clear"
      [] OTHER -> "probe"

\* os.kill(pid, sig) on what the marker gave as pid: TypeError when it is
\* not an integer.
KillResult(i) == IF i.kind = "pidstr" THEN "typeerror" ELSE ProbePid(i.pid)

\* An is_recording that takes a process it may not inspect for dead.
ProbeVerdictStrict(r) ==
    CASE r = "ok" -> "yes"
      [] r = "eperm" -> "clear"
      [] r = "esrch" -> "clear"
      [] OTHER -> "raise"

\* An is_recording that takes every recorded pid for alive.
ProbeVerdictTrusting(r) ==
    CASE r \in {"ok", "eperm", "esrch"} -> "yes"
      [] OTHER -> "raise"

\* is_recording(), lines 31-39: True when the probe succeeds, clear_state()
\* and False on ProcessLookupError, True on PermissionError; any other
\* exception propagates.
ProbeVerdict(r) ==
    CASE r = "ok" -> "yes"
      [] r = "eperm" -> "yes"
      [] r = "esrch" -> "clear"
      [] OTHER -> "raise"

\* is_recording() returns a to the command.
Returned(c, a) == [Locals(c) EXCEPT !.active = a, !.pc = Dispatch(cmd[c], a)]

\* The command ends with an unhandled exception or sys.exit(1).
Crash(c) == SetLocals(c, Ended("error"))

\* is_recording() raises on marker content m, for which get_recording_info()
\* gave i: the command ends with that exception.
CrashOn(c, m, i) == SetLocals(c, [Ended("error") EXCEPT !.raw = m, !.info = i])

\* A new invocation of `toggle` or `status`.
Begin(c, k) ==
    /\ cpc[c] = "idle"
    /\ SetLocals(c, [Ended("none") EXCEPT !.pc = "ir_read", !.cmd = k])
    /\ UNCHANGED <<marker, uvars, fdLive>>
    /\ UNCHANGED pvars

\* is_recording(), lines 22-30: STATE_FILE.exists() and get_recording_info().
\* A file that is missing at either check gives False.
IrRead(c) ==
    /\ cpc[c] = "ir_read"
    /\ CASE AfterRead(GetRecordingInfo(marker)) = "no" ->
              SetLocals(c, [Returned(c, "no") EXCEPT
                               !.raw = marker, !.info = GetRecordingInfo(marker)])
         [] AfterRead(GetRecordingInfo(marker)) = "raise" ->
              CrashOn(c, marker, GetRecordingInfo(marker))
         [] AfterRead(GetRecordingInfo(marker)) = "clear" ->
              SetLocals(c, [Locals(c) EXCEPT
                               !.pc = "ir_clear", !.raw = marker,
                               !.info = GetRecordingInfo(marker)])
         [] OTHER ->
              SetLocals(c, [Locals(c) EXCEPT
                               !.pc = "ir_probe", !.raw = marker,
                               !.info = GetRecordingInfo(marker)])
    /\ UNCHANGED <<marker, uvars, fdLive>>
    /\ UNCHANGED pvars

\* is_recording(), line 32: os.kill(pid, 0).
IrProbe(c) ==
    /\ cpc[c] = "ir_probe"
    /\ CASE ProbeVerdict(KillResult(info[c])) = "yes" ->
              SetLocals(c, [Returned(c, "yes") EXCEPT !.probe = KillResult(info[c])])
         [] ProbeVerdict(KillResult(info[c])) = "clear" ->
              SetLocals(c, [Locals(c) EXCEPT
                               !.pc = "ir_clear", !.probe = KillResult(info[c])])
         [] OTHER ->
              CrashOn(c, raw[c], info[c])
    /\ UNCHANGED <<marker, uvars, fdLive>>
    /\ UNCHANGED pvars

\* is_recording(), lines 29 and 35: clear_state(), then return False.
IrClear(c) ==
    /\ cpc[c] = "ir_clear"
    /\ marker' = Absent
    /\ fdLive' = [k \in Clients |-> FALSE]
    /\ SetLocals(c, [Returned(c, "no") EXCEPT !.tlog = Append(@, Event("clear", 0))])
    /\ UNCHANGED uvars
    /\ UNCHANGED pvars

\* What is_recording() read, probed and cleared is dropped once the command
\* has gone on.
Forget(r) ==
    [r EXCEPT !.info = NoneInfo, !.raw = Absent, !.probe = "none", !.tlog = << >>]

\* status, lines 243-261: info.get raises AttributeError when
\* get_recording_info() returned None or a document that is no mapping.
StInfo(c) ==
    /\ cpc[c] = "st_info"
    /\ IF GetRecordingInfo(marker).kind \in {"none", "nonrecord", "raise"}
       THEN Crash(c)
       ELSE SetLocals(c, [Forget(Locals(c)) EXCEPT !.pc = "echo"])
    /\ UNCHANGED <<marker, uvars, fdLive>>
    /\ UNCHANGED pvars

\* toggle, lines 178-179: info["pid"] raises TypeError on None and on a
\* document that is no mapping, KeyError on a mapping without pid.
TgInfo(c) ==
    /\ cpc[c] = "tg_info"
    /\ IF GetRecordingInfo(marker).kind \in {"none", "nonrecord", "nopid", "raise"}
       THEN Crash(c)
       ELSE SetLocals(c, [Forget(Locals(c)) EXCEPT
                             !.pc = "tg_kill", !.info = GetRecordingInfo(marker)])
    /\ UNCHANGED <<marker, uvars, fdLive>>
    /\ UNCHANGED pvars

\* SIGTERM reaches process p: before signal.signal has run the default
\* action ends the process; afterwards handle_sigterm sets stop_event.
DeliverSigterm(p) ==
    IF upc[p] = "boot"
    THEN upc' = [upc EXCEPT ![p] = "killed"] /\ UNCHANGED stopEvent
    ELSE stopEvent' = [stopEvent EXCEPT ![p] = TRUE] /\ UNCHANGED upc

\* A toggle that does not handle ProcessLookupError.
SignalVerdictUnhandled(r) == IF r = "ok" THEN "sent" ELSE "raise"

\* A toggle that removes the marker itself once the signal is delivered.
SignalVerdictClearing(r) == IF r \in {"ok", "esrch"} THEN "clear" ELSE "raise"

\* toggle, lines 181-188, on the result of os.kill(pid, signal.SIGTERM): the
\* messages follow a delivered signal, clear_state() follows
\* ProcessLookupError, and any other exception propagates.
SignalVerdict(r) ==
    CASE r = "ok" -> "sent"
      [] r = "esrch" -> "clear"
      [] OTHER -> "raise"

\* toggle, lines 181-189: os.kill(pid, signal.SIGTERM).
TgKill(c) ==
    /\ cpc[c] = "tg_kill"
    /\ CASE SignalVerdict(KillResult(info[c])) = "sent" ->
              /\ DeliverSigterm(info[c].pid)
              /\ SetLocals(c, [Locals(c) EXCEPT
                                  !.pc = "echo",
                                  !.tlog = Append(@, Event("signal", info[c].pid))])
         [] SignalVerdict(KillResult(info[c])) = "clear" ->
              /\ SetLocals(c, [Locals(c) EXCEPT
                                  !.pc = "tg_clear",
                                  !.tlog = Append(@, Event("signal", info[c].pid))])
              /\ UNCHANGED <<upc, stopEvent>>
         [] OTHER ->
              /\ Crash(c)
              /\ UNCHANGED <<upc, stopEvent>>
    /\ UNCHANGED <<marker, wav, sent, cleared, fail, fdLive>>
    /\ UNCHANGED pvars

\* toggle, line 188: clear_state() after ProcessLookupError.
TgClear(c) ==
    /\ cpc[c] = "tg_clear"
    /\ marker' = Absent
    /\ fdLive' = [k \in Clients |-> FALSE]
    /\ SetLocals(c, [Locals(c) EXCEPT
                        !.pc = "echo", !.tlog = Append(@, Event("clear", 0))])
    /\ UNCHANGED uvars
    /\ UNCHANGED pvars

\* toggle, line 192: load_config returns.
TgConfigOk(c) ==
    /\ cpc[c] = "tg_config"
    /\ SetLocals(c, [Forget(Locals(c)) EXCEPT !.pc = "tg_popen"])
    /\ UNCHANGED <<marker, uvars, fdLive>>
    /\ UNCHANGED pvars

\* toggle, line 192: load_config finds no config.yaml and calls sys.exit(1).
TgConfigFail(c) ==
    /\ cpc[c] = "tg_config"
    /\ Crash(c)
    /\ UNCHANGED <<marker, uvars, fdLive>>
    /\ UNCHANGED pvars

\* toggle, lines 212-218: subprocess.Popen of `_record`.
TgPopen(c) ==
    /\ cpc[c] = "tg_popen"
    /\ NextPid \in Units
    /\ upc' = [upc EXCEPT ![NextPid] = "boot"]
    /\ SetLocals(c, [Locals(c) EXCEPT
                        !.pc = "ws_open", !.child = NextPid,
                        !.tlog = Append(@, Event("launch", NextPid))])
    /\ UNCHANGED <<marker, stopEvent, wav, sent, cleared, fail, fdLive>>
    /\ UNCHANGED pvars

\* A write_state that is handed a pid that is not the child's.
WrittenPidStale(c) == MaxUnits + 2

\* write_state is called with pid=proc.pid (line 221).
WrittenPid(c) == child[c]

\* write_state, line 63: open(STATE_FILE, "w") creates or truncates the file.
WsOpen(c) ==
    /\ cpc[c] = "ws_open"
    /\ marker' = Empty
    /\ fdLive' = [fdLive EXCEPT ![c] = TRUE]
    /\ SetLocals(c, [Locals(c) EXCEPT !.pc = "ws_dump"])
    /\ UNCHANGED uvars
    /\ UNCHANGED pvars

\* write_state, line 64: yaml.dump and close.  The text goes to the file
\* that was opened, which is the marker unless it was unlinked since.
WsDump(c) ==
    /\ cpc[c] = "ws_dump"
    /\ marker' = IF fdLive[c] THEN Record(WrittenPid(c)) ELSE marker
    /\ fdLive' = [fdLive EXCEPT ![c] = FALSE]
    /\ SetLocals(c, [Locals(c) EXCEPT
                        !.pc = "echo", !.tlog = Append(@, Event("write", WrittenPid(c)))])
    /\ UNCHANGED uvars
    /\ UNCHANGED pvars

\* The command prints its messages (lines 183-185, 227-229, 240, 259-261)
\* and the process ends with status 0.
Echo(c) ==
    /\ cpc[c] = "echo"
    /\ SetLocals(c, Ended("ok"))
    /\ UNCHANGED <<marker, uvars, fdLive>>
    /\ UNCHANGED pvars

----------------------------------------------------------------------------
(* Audio capture: app/recorder.py Recorder *)
(*                                                                         *)
(* Two threads: the caller's, which runs start() and stop(), and the sound *)
(* driver's, which runs _callback for every block of frames while the      *)
(* stream is started.  Blocks are numbered in the order the driver         *)
(* produces them.                                                          *)

\* Blocks the driver may produce in one run of the model.
MaxFrames == 4

\* A queue that hands out the newest block first.
EnqueueFront(q, f) == <<f>> \o q

\* queue.Queue.put: first in, first out.
Enqueue(q, f) == Append(q, f)

\* A start() without its check.
StartRefusedNever == FALSE

\* start(), lines 41-42: `if self._recording: raise RuntimeError`.
StartRefused == rRecording

\* stop(), lines 72-73: `if not self._recording: raise RuntimeError`.
StopRefused == ~rRecording

\* The call ends: by return ("ok") or with the exception named.
RReturn(call, result) ==
    /\ rpc' = "idle"
    /\ rCall' = call
    /\ rResult' = result

\* start() takes the lock and checks _recording.
RStart ==
    /\ rpc = "idle"
    /\ IF StartRefused
       THEN RReturn("start", "AlreadyRecording")
       ELSE rpc' = "st_drain" /\ rCall' = "start" /\ rResult' = "running"
    /\ UNCHANGED <<rRecording, rStream, rQueue, rFrames, rWav, cbFrame, rCount, rDelivered>>
    /\ UNCHANGED <<lvars, tvars, svars, avars, kvars>>

\* start(), lines 45-49: one turn of the loop that empties the queue.
RStartDrain ==
    /\ rpc = "st_drain"
    /\ IF rQueue = << >>
       THEN rpc' = "st_open" /\ UNCHANGED rQueue
       ELSE rQueue' = Tail(rQueue) /\ UNCHANGED rpc
    /\ UNCHANGED <<rCall, rResult, rRecording, rStream, rFrames, rWav, cbFrame, rCount,
                   rDelivered>>
    /\ UNCHANGED <<lvars, tvars, svars, avars, kvars>>

\* start(), lines 51-58: sd.InputStream(...) and _stream.start() succeed; the
\* driver may call back from here on.
RStartOpen ==
    /\ rpc = "st_open"
    /\ rStream' = "open"
    /\ rDelivered' = << >>
    /\ rpc' = "st_flag"
    /\ UNCHANGED <<rCall, rResult, rRecording, rQueue, rFrames, rWav, cbFrame, rCount>>
    /\ UNCHANGED <<lvars, tvars, svars, avars, kvars>>

\* start(), lines 51-58: sd.PortAudioError (no input device, access denied).
RStartDeviceError ==
    /\ rpc = "st_open"
    /\ RReturn("start", "PortAudioError")
    /\ UNCHANGED <<rRecording, rStream, rQueue, rFrames, rWav, cbFrame, rCount, rDelivered>>
    /\ UNCHANGED <<lvars, tvars, svars, avars, kvars>>

\* start(), line 59: _recording = True, and return.
RStartFlag ==
    /\ rpc = "st_flag"
    /\ rRecording' = TRUE
    /\ RReturn("start", "ok")
    /\ UNCHANGED <<rStream, rQueue, rFrames, rWav, cbFrame, rCount, rDelivered>>
    /\ UNCHANGED <<lvars, tvars, svars, avars, kvars>>

\* stop() takes the lock and checks _recording.
RStop ==
    /\ rpc = "idle"
    /\ IF StopRefused
       THEN RReturn("stop", "NotRecording")
       ELSE rpc' = "sp_close" /\ rCall' = "stop" /\ rResult' = "running"
    /\ UNCHANGED <<rRecording, rStream, rQueue, rFrames, rWav, cbFrame, rCount, rDelivered>>
    /\ UNCHANGED <<lvars, tvars, svars, avars, kvars>>

\* stop(), lines 74-77: _stream.stop() returns once a callback that is
\* running has returned, and none is started afterwards; then close(),
\* _stream = None, _recording = False.
RStopClose ==
    /\ rpc = "sp_close"
    /\ cbFrame = 0
    /\ rStream' = "none"
    /\ rRecording' = FALSE
    /\ rFrames' = << >>
    /\ rpc' = "sp_drain"
    /\ UNCHANGED <<rCall, rResult, rQueue, rWav, cbFrame, rCount, rDelivered>>
    /\ UNCHANGED <<lvars, tvars, svars, avars, kvars>>

\* stop(), lines 81-88: one turn of the loop that collects the queued
\* blocks; with the queue empty, ValueError when nothing was collected.
RStopDrain ==
    /\ rpc = "sp_drain"
    /\ IF rQueue # << >>
       THEN /\ rFrames' = Append(rFrames, Head(rQueue))
            /\ rQueue' = Tail(rQueue)
            /\ UNCHANGED <<rpc, rCall, rResult>>
       ELSE /\ IF rFrames = << >>
               THEN RReturn("stop", "EmptyRecording")
               ELSE rpc' = "sp_write" /\ UNCHANGED <<rCall, rResult>>
            /\ UNCHANGED <<rFrames, rQueue>>
    /\ UNCHANGED <<rRecording, rStream, rWav, cbFrame, rCount, rDelivered>>
    /\ UNCHANGED <<lvars, tvars, svars, avars, kvars>>

\* stop(), lines 90-99: np.concatenate(frames) is written to a new WAV file.
RStopWrite ==
    /\ rpc = "sp_write"
    /\ rWav' = rFrames
    /\ RReturn("stop", "ok")
    /\ UNCHANGED <<rRecording, rStream, rQueue, rFrames, cbFrame, rCount, rDelivered>>
    /\ UNCHANGED <<lvars, tvars, svars, avars, kvars>>

\* The driver has a block of frames and calls _callback: indata.copy().
CbBegin ==
    /\ rStream = "open"
    /\ cbFrame = 0
    /\ rCount < MaxFrames
    /\ rCount' = rCount + 1
    /\ cbFrame' = rCount + 1
    /\ UNCHANGED <<rpc, rCall, rResult, rRecording, rStream, rQueue, rFrames, rWav,
                   rDelivered>>
    /\ UNCHANGED <<lvars, tvars, svars, avars, kvars>>

\* _callback, line 113: self._queue.put(...), and the callback returns.
CbPut ==
    /\ cbFrame # 0
    /\ rQueue' = Enqueue(rQueue, cbFrame)
    /\ rDelivered' = Append(rDelivered, cbFrame)
    /\ cbFrame' = 0
    /\ UNCHANGED <<rpc, rCall, rResult, rRecording, rStream, rFrames, rWav, rCount>>
    /\ UNCHANGED <<lvars, tvars, svars, avars, kvars>>

\* Recorder.__init__, lines 26-31.
InitRecorder ==
    /\ rpc = "idle"
    /\ rCall = "none"
    /\ rResult = "none"
    /\ rRecording = FALSE
    /\ rStream = "none"
    /\ rQueue = << >>
    /\ rFrames = << >>
    /\ rWav = << >>
    /\ cbFrame = 0
    /\ rCount = 0
    /\ rDelivered = << >>

----------------------------------------------------------------------------
(* Transcription with the OpenAI backend: app/transcribe.py _transcribe_api, *)
(* split_audio, _transcribe_single (the same code as transcribe.py           *)
(* transcribe_audio, split_audio, _transcribe_single).                       *)
(*                                                                           *)
(* Sizes are in bytes and times in milliseconds.  file_size_mb is the float  *)
(* st_size / 2^20, which is exact for every file size, so comparisons and    *)
(* the floor of its quotient are computed here on bytes.  A text is a        *)
(* sequence of characters.                                                   *)

\* 1024 * 1024, line 83.
MB == 1048576

\* The literal of the test at line 85.
ApiLimitMB == 24

\* Default of split_audio's parameter, line 104.
max_size_mb == 24

MaxMultiple == 3
SizeSlack == 2
MaxDurationMs == 8

\* File sizes around the multiples of 24 MB.
Sizes ==
    {s \in {k * max_size_mb * MB + e : k \in 0..MaxMultiple,
                                       e \in (0 - SizeSlack)..SizeSlack} : s >= 0}

\* What the API may answer for one file.
Responses == {<< >>, <<"a">>, <<" ", "b">>}

\* The file handed to _transcribe_single is the original one, not chunk
\* number 0, 1, ...
Original == 0 - 1

OversizedFrom24(size) == size >= ApiLimitMB * MB

\* not (file_size_mb <= 24), line 85.
Oversized(size) == size > ApiLimitMB * MB

NumChunksCeil(size) == (size + max_size_mb * MB - 1) \div (max_size_mb * MB)

\* int(file_size_mb / max_size_mb) + 1, line 109.
NumChunks(size) == (size \div (max_size_mb * MB)) + 1

\* len(audio) // num_chunks, line 110.
ChunkDurationMs(size, total) == total \div NumChunks(size)

\* i * chunk_duration_ms, line 116.
StartMs(i, size, total) == i * ChunkDurationMs(size, total)

EndMsNoRemainder(i, size, total) ==
    StartMs(i, size, total) + ChunkDurationMs(size, total)

\* Line 117.
EndMs(i, size, total) ==
    IF i < NumChunks(size) - 1
    THEN StartMs(i, size, total) + ChunkDurationMs(size, total)
    ELSE total

\* audio[start_ms:end_ms], line 118: a slice bound beyond the end of the
\* audio is cut to the end.
ChunkRange(i, size, total) ==
    LET cut(t) == IF t > total THEN total ELSE t
    IN  <<cut(StartMs(i, size, total)), cut(EndMs(i, size, total))>>

RECURSIVE JoinNoSpace(_)
JoinNoSpace(parts) ==
    IF parts = << >> THEN << >>
    ELSE IF Len(parts) = 1 THEN parts[1]
    ELSE parts[1] \o JoinNoSpace(Tail(parts))

\* " ".join(parts), line 97.
RECURSIVE Join(_)
Join(parts) ==
    IF parts = << >> THEN << >>
    ELSE IF Len(parts) = 1 THEN parts[1]
    ELSE parts[1] \o <<" ">> \o Join(Tail(parts))

\* chunk_paths of _transcribe_api: the chunks split_audio returned.
ChunkPaths == 0..(Len(tPlan) - 1)

\* Lines 83-89 and, for a file over the limit, split_audio up to mkdtemp.
TrBegin ==
    /\ tpc = "begin"
    /\ IF Oversized(tSize)
       THEN tpc' = "split" /\ tDir' = TRUE
       ELSE tpc' = "single" /\ UNCHANGED tDir
    /\ UNCHANGED <<tSize, tDuration, tPlan, tFiles, tCalls, tParts, tText, tOutcome>>
    /\ UNCHANGED <<lvars, rvars, svars, avars, kvars>>

\* Line 86: the one call for a file within the limit.
TrSingle ==
    /\ tpc = "single"
    /\ \E r \in Responses :
        /\ tCalls' = Append(tCalls, [file |-> Original, ok |-> TRUE, reply |-> r])
        /\ tText' = r
    /\ tOutcome' = "ok"
    /\ tpc' = "done"
    /\ UNCHANGED <<tSize, tDuration, tPlan, tFiles, tDir, tParts>>
    /\ UNCHANGED <<lvars, rvars, svars, avars, kvars>>

\* Line 86, the API call fails: _transcribe_single calls sys.exit(1).
TrSingleFail ==
    /\ tpc = "single"
    /\ tCalls' = Append(tCalls, [file |-> Original, ok |-> FALSE, reply |-> << >>])
    /\ tOutcome' = "exit"
    /\ tpc' = "done"
    /\ UNCHANGED <<tSize, tDuration, tPlan, tFiles, tDir, tParts, tText>>
    /\ UNCHANGED <<lvars, rvars, svars, avars, kvars>>

\* One round of the loop of split_audio, lines 115-121, and its return
\* after the last round.
TrExport ==
    /\ tpc = "split"
    /\ LET i == Len(tPlan) IN
        /\ tPlan' = Append(tPlan, ChunkRange(i, tSize, tDuration))
        /\ tFiles' = tFiles \cup {i}
        /\ tpc' = IF i + 1 = NumChunks(tSize) THEN "calls" ELSE "split"
    /\ UNCHANGED <<tSize, tDuration, tDir, tCalls, tParts, tText, tOutcome>>
    /\ UNCHANGED <<lvars, rvars, svars, avars, kvars>>

\* chunk.export raises, line 120: the exception leaves split_audio and
\* _transcribe_api, whose try starts after the call of split_audio.  The
\* file being exported may have been created.
TrExportFail ==
    /\ tpc = "split"
    /\ \E created \in BOOLEAN :
        tFiles' = IF created THEN tFiles \cup {Len(tPlan)} ELSE tFiles
    /\ tOutcome' = "error"
    /\ tpc' = "done"
    /\ UNCHANGED <<tSize, tDuration, tPlan, tDir, tCalls, tParts, tText>>
    /\ UNCHANGED <<lvars, rvars, svars, avars, kvars>>

\* One round of the loop of lines 94-96 and, after the last round, the
\* evaluation of the return value, line 97.
TrCall ==
    /\ tpc = "calls"
    /\ LET k == Len(tParts) IN
        \E r \in Responses :
            /\ tCalls' = Append(tCalls, [file |-> k, ok |-> TRUE, reply |-> r])
            /\ tParts' = Append(tParts, r)
            /\ IF k + 1 = Len(tPlan)
               THEN /\ tText' = Join(tParts')
                    /\ tOutcome' = "returning"
                    /\ tpc' = "cleanup"
               ELSE UNCHANGED <<tText, tOutcome, tpc>>
    /\ UNCHANGED <<tSize, tDuration, tPlan, tFiles, tDir>>
    /\ UNCHANGED <<lvars, rvars, svars, avars, kvars>>

\* Line 96, the API call fails: sys.exit(1) inside the try.
TrCallFail ==
    /\ tpc = "calls"
    /\ tCalls' = Append(tCalls, [file |-> Len(tParts), ok |-> FALSE, reply |-> << >>])
    /\ tOutcome' = "exiting"
    /\ tpc' = "cleanup"
    /\ UNCHANGED <<tSize, tDuration, tPlan, tFiles, tDir, tParts, tText>>
    /\ UNCHANGED <<lvars, rvars, svars, avars, kvars>>

\* The finally clause, lines 98-101; rmdir raises when the directory is
\* not empty.
TrCleanup ==
    /\ tpc = "cleanup"
    /\ tFiles' = tFiles \ ChunkPaths
    /\ IF tFiles' = {}
       THEN /\ tDir' = FALSE
            /\ tOutcome' = IF tOutcome = "returning" THEN "ok" ELSE "exit"
       ELSE /\ tOutcome' = "error"
            /\ UNCHANGED tDir
    /\ tpc' = "done"
    /\ UNCHANGED <<tSize, tDuration, tPlan, tCalls, tParts, tText>>
    /\ UNCHANGED <<lvars, rvars, svars, avars, kvars>>

\* A transcription of a file of the given size and duration is about to
\* start.
TranscribeRequest(sizes, durations) ==
    /\ tpc = "begin"
    /\ tSize \in sizes
    /\ tDuration \in durations
    /\ tPlan = << >>
    /\ tFiles = {}
    /\ tDir = FALSE
    /\ tCalls = << >>
    /\ tParts = << >>
    /\ tText = << >>
    /\ tOutcome = "running"

\* The lifecycle and the recorder are explored without the transcription
\* taking a step.
InitTranscribe == TranscribeRequest({0}, {0})

----------------------------------------------------------------------------
(* Summarization: summarize.py summarize_transcript, _chunk_transcript,      *)
(* _call_llm.                                                                *)
(*                                                                           *)
(* The transcript is the sequence of its words, numbered from 0; a piece of  *)
(* it is the span <<a, b>> of the words a .. b-1.  A summary is a sequence   *)
(* of characters.                                                            *)

\* _CHUNK_WORDS, line 7.
CHUNK_WORDS == 8000

\* _OVERLAP_WORDS, line 8.
OVERLAP_WORDS == 500

\* The literal of the test at line 101.
SingleCallWords == 10000

MaxWindows == 2
WordSlack == 1

\* Transcript lengths around 0, the limit of the single call, the 12,000
\* words of the worked example, and the lengths at which one more chunk is
\* needed.
WordCounts ==
    LET marks == {0, SingleCallWords, 12000}
                 \cup {CHUNK_WORDS + k * (CHUNK_WORDS - OVERLAP_WORDS) : k \in 0..MaxWindows}
    IN  {w \in {m + e : m \in marks, e \in (0 - WordSlack)..WordSlack} : w >= 0}

\* The argument title.
Title == "Lecture 1"

Courses == {"", "CS101"}

\* What the chat API may put in message.content.
Contents == {<<"x">>, <<" ", "y", " ">>}

White == {" "}

RECURSIVE LStrip(_)
LStrip(t) == IF t # << >> /\ Head(t) \in White THEN LStrip(Tail(t)) ELSE t

RECURSIVE RStrip(_)
RStrip(t) ==
    IF t # << >> /\ t[Len(t)] \in White THEN RStrip(SubSeq(t, 1, Len(t) - 1)) ELSE t

\* str.strip(), line 65.
Strip(t) == RStrip(LStrip(t))

\* context_header, lines 95-97.
ContextHeader ==
    <<<<"Lecture", Title>>>> \o (IF sCourse # "" THEN <<<<"Course", sCourse>>>> ELSE << >>)

WordSliceShort(start, end, n) ==
    LET cut(w) == IF w > n THEN n ELSE w
    IN  <<cut(start), cut(end) - 1>>

\* words[start:end], line 48: a bound beyond the last word is cut.
WordSlice(start, end, n) ==
    LET cut(w) == IF w > n THEN n ELSE w
    IN  <<cut(start), cut(end)>>

NextStartNoOverlap(end) == end

\* end - _OVERLAP_WORDS, line 51.
NextStart(end) == end - OVERLAP_WORDS

\* merge_input, lines 121-123: the partial summaries, each under its
\* "## Chunk i" heading.
MergeInput(partials) ==
    [i \in 1..Len(partials) |-> [chunk |-> i, summary |-> partials[i]]]

NotesRequestWithHistory(part, of, span) ==
    [system |-> "SYSTEM_PROMPT", header |-> ContextHeader,
     part |-> part, of |-> of, span |-> span, partials |-> MergeInput(sPartials)]

\* user_msg with _SYSTEM_PROMPT: lines 102-103 (part = 0: no "Part" line)
\* and lines 112-118.
NotesRequest(part, of, span) ==
    [system |-> "SYSTEM_PROMPT", header |-> ContextHeader,
     part |-> part, of |-> of, span |-> span, partials |-> << >>]

\* Lines 124-125.
MergeRequest(partials) ==
    [system |-> "MERGE_SYSTEM_PROMPT", header |-> ContextHeader,
     part |-> 0, of |-> 0, span |-> <<0, 0>>, partials |-> MergeInput(partials)]

SingleCallBelow(n) == n < SingleCallWords

\* word_count <= 10_000, line 101.
SingleCall(n) == n <= SingleCallWords

\* How a call of _call_llm can fail: sys.exit(1) of lines 66-71, or an
\* exception of line 65 (no choice in the response, content is None).
LlmFailures == {"exit", "error"}

AfterLlmErrorRetry(pos) == pos

\* Where summarize_transcript is after a call of _call_llm has failed:
\* neither sys.exit nor the exception is caught in summarize.py.
AfterLlmError(pos) == "done"

SCalled(request, ok, reply) ==
    sCalls' = Append(sCalls, [request |-> request, ok |-> ok, reply |-> reply])

SFailed(request) ==
    /\ SCalled(request, FALSE, << >>)
    /\ \E kind \in LlmFailures : sOutcome' = kind
    /\ spc' = AfterLlmError(spc)

\* Lines 95-101 and 106.
SBegin ==
    /\ spc = "begin"
    /\ spc' = IF SingleCall(sWords) THEN "single" ELSE "chunking"
    /\ UNCHANGED <<sWords, sCourse, sStart, sChunks, sCalls, sPartials, sResult, sOutcome>>
    /\ UNCHANGED <<lvars, rvars, tvars, avars, kvars>>

\* Lines 102-103.
SSingle ==
    /\ spc = "single"
    /\ \E r \in Contents :
        /\ SCalled(NotesRequest(0, 0, <<0, sWords>>), TRUE, r)
        /\ sResult' = Strip(r)
    /\ sOutcome' = "ok"
    /\ spc' = "done"
    /\ UNCHANGED <<sWords, sCourse, sStart, sChunks, sPartials>>
    /\ UNCHANGED <<lvars, rvars, tvars, avars, kvars>>

SSingleFail ==
    /\ spc = "single"
    /\ SFailed(NotesRequest(0, 0, <<0, sWords>>))
    /\ UNCHANGED <<sWords, sCourse, sStart, sChunks, sPartials, sResult>>
    /\ UNCHANGED <<lvars, rvars, tvars, avars, kvars>>

\* One round of the loop of _chunk_transcript, lines 46-51, or its end.
SChunk ==
    /\ spc = "chunking"
    /\ IF sStart < sWords
       THEN LET end == sStart + CHUNK_WORDS IN
              /\ sChunks' = Append(sChunks, WordSlice(sStart, end, sWords))
              /\ IF end >= sWords
                 THEN spc' = "map" /\ UNCHANGED sStart
                 ELSE sStart' = NextStart(end) /\ UNCHANGED spc
       ELSE spc' = "map" /\ UNCHANGED <<sStart, sChunks>>
    /\ UNCHANGED <<sWords, sCourse, sCalls, sPartials, sResult, sOutcome>>
    /\ UNCHANGED <<lvars, rvars, tvars, avars, kvars>>

\* One round of the loop of lines 110-118.
SMap ==
    /\ spc = "map"
    /\ Len(sPartials) < Len(sChunks)
    /\ LET i == Len(sPartials) + 1 IN
        \E r \in Contents :
            /\ SCalled(NotesRequest(i, Len(sChunks), sChunks[i]), TRUE, r)
            /\ sPartials' = Append(sPartials, Strip(r))
    /\ UNCHANGED <<spc, sWords, sCourse, sStart, sChunks, sResult, sOutcome>>
    /\ UNCHANGED <<lvars, rvars, tvars, avars, kvars>>

SMapFail ==
    /\ spc = "map"
    /\ Len(sPartials) < Len(sChunks)
    /\ SFailed(NotesRequest(Len(sPartials) + 1, Len(sChunks), sChunks[Len(sPartials) + 1]))
    /\ UNCHANGED <<sWords, sCourse, sStart, sChunks, sPartials, sResult>>
    /\ UNCHANGED <<lvars, rvars, tvars, avars, kvars>>

\* Lines 120-125, after the loop.
SMerge ==
    /\ spc = "map"
    /\ Len(sPartials) = Len(sChunks)
    /\ \E r \in Contents :
        /\ SCalled(MergeRequest(sPartials), TRUE, r)
        /\ sResult' = Strip(r)
    /\ sOutcome' = "ok"
    /\ spc' = "done"
    /\ UNCHANGED <<sWords, sCourse, sStart, sChunks, sPartials>>
    /\ UNCHANGED <<lvars, rvars, tvars, avars, kvars>>

SMergeFail ==
    /\ spc = "map"
    /\ Len(sPartials) = Len(sChunks)
    /\ SFailed(MergeRequest(sPartials))
    /\ UNCHANGED <<sWords, sCourse, sStart, sChunks, sPartials, sResult>>
    /\ UNCHANGED <<lvars, rvars, tvars, avars, kvars>>

\* summarize_transcript is about to be called on a transcript.
SummarizeRequest(counts, courses) ==
    /\ spc = "begin"
    /\ sWords \in counts
    /\ sCourse \in courses
    /\ sStart = 0
    /\ sChunks = << >>
    /\ sCalls = << >>
    /\ sPartials = << >>
    /\ sResult = << >>
    /\ sOutcome = "running"

\* The other components are explored without the summarization taking a
\* step.
InitSummarize == SummarizeRequest({0}, {""})

----------------------------------------------------------------------------
(* Starting a recording: app/cli.py toggle, lines 191-225, and              *)
(* _infer_course.                                                            *)
(*                                                                           *)
(* A string is a sequence of tokens.  The "time" of a schedule entry is      *)
(* what lines 69-71 make of it: four integers ("range"), a ValueError        *)
(* ("garbled": no "-" or no ":" in it, or a field that is no integer), or    *)
(* an AttributeError ("notstring").                                          *)

\* buffer_minutes, line 64.
BufferMinutes == 15

MaxEntries == 2
MaxSecond == 1

\* An option that was not given has the value None.
NotGiven == <<"None">>

\* A key that the schedule entry does not have.
Missing == <<"missing">>

\* str(date.today()), line 193.
Today == <<"today">>

\* config.get("default_course", "Lecture"), line 58.
DefaultCourse == <<"default">>

Range(sh, sm, eh, em) == [kind |-> "range", sh |-> sh, sm |-> sm, eh |-> eh, em |-> em]

Unparsed(kind) == [kind |-> kind, sh |-> 0, sm |-> 0, eh |-> 0, em |-> 0]

\* Entries of config["schedule"][weekday]: 9:00-10:00 and 10:00-11:00,
\* whose windows overlap; one without a course; a time that is no range;
\* a time that is no string; a range of numbers that are no time of day.
Entries ==
    { [time |-> Range(9, 0, 10, 0), course |-> <<"A">>, prefix |-> <<"LecA">>],
      [time |-> Range(10, 0, 11, 0), course |-> <<"B">>, prefix |-> Missing],
      [time |-> Range(9, 0, 10, 0), course |-> Missing, prefix |-> <<"LecC">>],
      [time |-> Unparsed("garbled"), course |-> <<"G">>, prefix |-> <<"LecG">>],
      [time |-> Unparsed("notstring"), course |-> <<"N">>, prefix |-> <<"LecN">>],
      [time |-> Range(24, 0, 25, 0), course |-> <<"O">>, prefix |-> <<"LecO">>] }

Schedules ==
    UNION {[1..n -> Entries] : n \in 0..MaxEntries}

\* Minutes of the day around the ends of the windows of the entries.
ClockMinutes == {8 * 60 + 44, 8 * 60 + 45, 9 * 60 + 50, 10 * 60 + 15, 10 * 60 + 16}

Nows == {m * 60 + sec : m \in ClockMinutes, sec \in 0..MaxSecond}

GivenCourses == {NotGiven, << >>, <<"CS">>}
GivenTitles == {NotGiven, << >>, <<"Intro">>}
GivenDates == {NotGiven, <<"2024-01-01">>}

\* The truth value of an option: None and "" are false.
Truthy(v) == v # NotGiven /\ v # << >>

ValidClockAny(h, m) == TRUE

\* now.replace(hour=h, minute=m, ...) raises ValueError for an hour
\* outside 0..23 or a minute outside 0..59, lines 75-76.
ValidClock(h, m) == h \in 0..23 /\ m \in 0..59

\* Lines 75-82.
InWindow(t, now) ==
    LET window_start == ((t.sh * 60 + t.sm) - BufferMinutes) * 60
        window_end == ((t.eh * 60 + t.em) + BufferMinutes) * 60
    IN  window_start <= now /\ now <= window_end

\* entry.get(key, default), line 83.
Get(value, default) == IF value = Missing THEN default ELSE value

\* _infer_course, lines 66-85, on the entries of the current weekday.
RECURSIVE InferCourse(_, _)
InferCourse(day_schedule, now) ==
    IF day_schedule = << >>
    THEN [raised |-> FALSE, course |-> DefaultCourse, prefix |-> <<"Lecture">>]
    ELSE LET entry == Head(day_schedule)
             t == entry.time
         IN  IF t.kind # "range"
             THEN InferCourse(Tail(day_schedule), now)
             ELSE IF ~ValidClock(t.sh, t.sm) \/ ~ValidClock(t.eh, t.em)
             THEN [raised |-> TRUE, course |-> << >>, prefix |-> << >>]
             ELSE IF InWindow(t, now)
             THEN [raised |-> FALSE,
                   course |-> Get(entry.course, DefaultCourse),
                   prefix |-> Get(entry.prefix, <<"Lecture">>)]
             ELSE InferCourse(Tail(day_schedule), now)

\* note_date or str(date.today()), line 193.
ResolvedDate == IF Truthy(aDate) THEN aDate ELSE Today

\* Lines 192-200, when no exception is raised.
AResolve ==
    /\ apc = "begin"
    /\ IF Truthy(aCourse) /\ Truthy(aTitle)
       THEN aResolved' = <<aCourse, aTitle, ResolvedDate>>
       ELSE LET inferred == InferCourse(aSchedule, aNow) IN
              /\ ~inferred.raised
              /\ aResolved' =
                    <<IF Truthy(aCourse) THEN aCourse ELSE inferred.course,
                      IF Truthy(aTitle) THEN aTitle
                      ELSE inferred.prefix \o <<" ">> \o ResolvedDate,
                      ResolvedDate>>
    /\ apc' = "popen"
    /\ UNCHANGED <<aCourse, aTitle, aDate, aSchedule, aNow, aCmd, aState, aOutcome>>
    /\ UNCHANGED <<lvars, rvars, tvars, svars, kvars>>

\* Line 198: _infer_course raises the ValueError of now.replace, which
\* neither it nor toggle catches.
AInferRaises ==
    /\ apc = "begin"
    /\ ~(Truthy(aCourse) /\ Truthy(aTitle))
    /\ InferCourse(aSchedule, aNow).raised
    /\ aOutcome' = "ValueError"
    /\ apc' = "done"
    /\ UNCHANGED <<aCourse, aTitle, aDate, aSchedule, aNow, aResolved, aCmd, aState>>
    /\ UNCHANGED <<lvars, rvars, tvars, svars, kvars>>

\* Lines 202-218: the unit is launched.
ALaunch ==
    /\ apc = "popen"
    /\ aCmd' = aResolved
    /\ apc' = "write"
    /\ UNCHANGED <<aCourse, aTitle, aDate, aSchedule, aNow, aResolved, aState, aOutcome>>
    /\ UNCHANGED <<lvars, rvars, tvars, svars, kvars>>

\* Lines 220-229: write_state and the messages.
AWrite ==
    /\ apc = "write"
    /\ aState' = aResolved
    /\ aOutcome' = "started"
    /\ apc' = "done"
    /\ UNCHANGED <<aCourse, aTitle, aDate, aSchedule, aNow, aResolved, aCmd>>
    /\ UNCHANGED <<lvars, rvars, tvars, svars, kvars>>

\* toggle has found no recording and is about to start one.
StartRequest(courses, titles, dates, schedules, nows) ==
    /\ apc = "begin"
    /\ aCourse \in courses
    /\ aTitle \in titles
    /\ aDate \in dates
    /\ aSchedule \in schedules
    /\ aNow \in nows
    /\ aResolved = << >>
    /\ aCmd = << >>
    /\ aState = << >>
    /\ aOutcome = "running"

\* The other components are explored without this one taking a step.
InitResolve == StartRequest({NotGiven}, {NotGiven}, {NotGiven}, {<< >>}, {0})

----------------------------------------------------------------------------
(* The marker file, record by record: app/state.py write_state,             *)
(* get_recording_info, clear_state, called one after the other by one       *)
(* caller.                                                                   *)
(*                                                                           *)
(* A Python value is [type, text].  The file is a sequence of lines, each    *)
(* the `key: scalar` that yaml.dump writes for one key of the mapping, or    *)
(* a line that is no YAML.                                                   *)

MaxCalls == 3

StateKeys == <<"course", "date", "pid", "start_time", "title">>

\* Every key a marker of the model can hold: those of write_state and one
\* more, which an earlier version or the user may have written.
AllKeys == {StateKeys[i] : i \in 1..Len(StateKeys)} \cup {"note"}

IntTexts == {"1", "2", "123"}
TimestampTexts == {"2024-01-01", "2024-01-01T09:00:00"}
BoolTexts == {"yes"}

\* The type the YAML resolver gives to a plain scalar.
Resolve(text) ==
    IF text \in IntTexts THEN "int"
    ELSE IF text \in TimestampTexts THEN "timestamp"
    ELSE IF text \in BoolTexts THEN "bool"
    ELSE IF text = "" THEN "null"
    ELSE "str"

PyStr(text) == [type |-> "str", text |-> text]
PyInt(text) == [type |-> "int", text |-> text]

\* No value under this key.
NoValue == [type |-> "absent", text |-> ""]

RepresentPlain(key, v) == [key |-> key, style |-> "plain", text |-> v.text]

\* yaml.dump of one item, line 64: a string that would be read back as
\* something else is written in quotes.
Represent(key, v) ==
    [key |-> key,
     style |-> IF v.type = "str" /\ Resolve(v.text) # "str" THEN "quoted" ELSE "plain",
     text |-> v.text]

\* yaml.safe_load of one item, line 48.
Construct(line) ==
    IF line.style = "quoted" THEN PyStr(line.text)
    ELSE [type |-> Resolve(line.text), text |-> line.text]

\* datetime.now().isoformat(), line 61.
StartTime == PyStr("2024-01-01T09:00:00")

\* The mapping `state` of write_state, lines 56-62.
StateOf(pid, course, title, date) ==
    [k \in {StateKeys[i] : i \in 1..Len(StateKeys)} |->
        CASE k = "pid" -> pid
          [] k = "course" -> course
          [] k = "title" -> title
          [] k = "date" -> date
          [] k = "start_time" -> StartTime]

\* yaml.dump(state, f), line 64: the keys in sorted order.
Dump(state) ==
    [i \in 1..Len(StateKeys) |-> Represent(StateKeys[i], state[StateKeys[i]])]

NoFile == [exists |-> FALSE, lines |-> << >>]

File(lines) == [exists |-> TRUE, lines |-> lines]

Garbage == [key |-> "", style |-> "garbage", text |-> "{"]

\* A record as write_state leaves it, and one with a key more.
OldRecord == Dump(StateOf(PyInt("2"), PyStr("OLD"), PyStr("Old title"), PyStr("2023-12-31")))

OldLongRecord == OldRecord \o <<[key |-> "note", style |-> "plain", text |-> "kept"]>>

\* What may be in the state directory before the first call.
StoreContents ==
    {NoFile, File(<< >>), File(<<Garbage>>), File(OldRecord), File(OldLongRecord)}

OpenKeeping(file) == file.lines

\* open(STATE_FILE, "w"), line 63: the file is created or cut to length 0.
OpenForWriting(file) == << >>

\* Writing lines at the start of an open file.
WriteLines(old, new) == new \o SubSeq(old, Len(new) + 1, Len(old))

\* What get_recording_info returns, lines 42-50: None when the file does
\* not exist, when safe_load raises, and when the file is empty; else the
\* mapping, in which the last of several items with one key counts.
GetInfo(file) ==
    IF \/ ~file.exists
       \/ file.lines = << >>
       \/ \E i \in 1..Len(file.lines) : file.lines[i].style = "garbage"
    THEN [none |-> TRUE, dict |-> [k \in AllKeys |-> NoValue]]
    ELSE [none |-> FALSE,
          dict |-> [k \in AllKeys |->
                      LET at == {i \in 1..Len(file.lines) : file.lines[i].key = k}
                      IN  IF at = {} THEN NoValue
                          ELSE Construct(file.lines[CHOOSE i \in at : \A j \in at : j <= i])]]

UnlinkStrict(file) == IF file.exists THEN "ok" ELSE "FileNotFoundError"

\* STATE_FILE.unlink(missing_ok=True), line 69.
Unlink(file) == "ok"

Logged(op, args, got, raised) ==
    kLog' = Append(kLog, [op |-> op, args |-> args, info |-> got,
                          raised |-> raised, after |-> kFile'])

Pids == {PyInt("1"), PyInt("2")}
CourseArgs == {PyStr("CS101"), PyStr("123")}
TitleArgs == {PyStr("Intro"), PyStr("yes")}
DateArgs == {PyStr("2024-01-01")}

\* write_state, lines 53-64.
KWrite ==
    /\ Len(kLog) < MaxCalls
    /\ \E pid \in Pids, course \in CourseArgs, title \in TitleArgs, date \in DateArgs :
        /\ kFile' = File(WriteLines(OpenForWriting(kFile),
                                    Dump(StateOf(pid, course, title, date))))
        /\ Logged("write", <<pid, course, title, date>>, GetInfo(NoFile), "no")
    /\ UNCHANGED <<lvars, rvars, tvars, svars, avars>>

\* get_recording_info, lines 42-50.
KRead ==
    /\ Len(kLog) < MaxCalls
    /\ kFile' = kFile
    /\ Logged("read", << >>, GetInfo(kFile), "no")
    /\ UNCHANGED <<lvars, rvars, tvars, svars, avars>>

\* clear_state, lines 67-69.
KClear ==
    /\ Len(kLog) < MaxCalls
    /\ kFile' = IF Unlink(kFile) = "ok" THEN NoFile ELSE kFile
    /\ Logged("clear", << >>, GetInfo(NoFile),
              IF Unlink(kFile) = "ok" THEN "no" ELSE Unlink(kFile))
    /\ UNCHANGED <<lvars, rvars, tvars, svars, avars>>

StoreStart(contents) ==
    /\ kFile \in contents
    /\ kLog = << >>

\* The other components are explored without calls of this caller.
InitStore == StoreStart({NoFile})

----------------------------------------------------------------------------
(* The system *)

InitUnits ==
    /\ upc = [u \in Units |-> "notlaunched"]
    /\ stopEvent = [u \in Units |-> FALSE]
    /\ wav = [u \in Units |-> "none"]
    /\ sent = [u \in Units |-> << >>]
    /\ cleared = [u \in Units |-> FALSE]
    /\ fail = [u \in Units |-> "none"]

InitClients ==
    /\ cpc = [c \in Clients |-> "idle"]
    /\ cmd = [c \in Clients |-> "none"]
    /\ info = [c \in Clients |-> NoneInfo]
    /\ raw = [c \in Clients |-> Absent]
    /\ child = [c \in Clients |-> 0]
    /\ probe = [c \in Clients |-> "none"]
    /\ active = [c \in Clients |-> "unknown"]
    /\ tlog = [c \in Clients |-> << >>]
    /\ outcome = [c \in Clients |-> "none"]
    /\ fdLive = [c \in Clients |-> FALSE]

\* A first run: no marker file.
Init == marker = Absent /\ InitUnits /\ InitClients /\ InitRecorder /\ InitTranscribe /\ InitSummarize /\ InitResolve /\ InitStore

\* The tool starts on whatever an earlier run or the user left in the
\* marker file.
InitDisk == marker \in MarkerContents /\ InitUnits /\ InitClients /\ InitRecorder /\ InitTranscribe /\ InitSummarize /\ InitResolve /\ InitStore

UnitStep(u) ==
    \/ UInstall(u)
    \/ UStartOk(u)
    \/ UStartFail(u)
    \/ UWait(u)
    \/ UStageOk(u)
    \/ UStageExc(u)
    \/ UStageExit(u)
    \/ UClear(u)
    \/ UExit(u)

ClientStep(c) ==
    \/ \E k \in Commands : Begin(c, k)
    \/ IrRead(c)
    \/ IrProbe(c)
    \/ IrClear(c)
    \/ StInfo(c)
    \/ TgInfo(c)
    \/ TgKill(c)
    \/ TgClear(c)
    \/ TgConfigOk(c)
    \/ TgConfigFail(c)
    \/ TgPopen(c)
    \/ WsOpen(c)
    \/ WsDump(c)
    \/ Echo(c)

Next == (\E u \in Units : UnitStep(u)) \/ (\E c \in Clients : ClientStep(c))

Spec == Init /\ [][Next]_vars

SpecDisk == InitDisk /\ [][Next]_vars

\* One command at a time: a single shell runs toggle and status, each to
\* its end, next to the units it has started.
NextSeq == (\E u \in Units : UnitStep(u)) \/ ClientStep(1)

\* A unit is a process of its own: it is scheduled as long as it can take
\* a step, and every call it makes returns or raises.
UnitsRun == \A u \in Units : WF_vars(UnitStep(u))

SpecSeq == Init /\ [][NextSeq]_vars /\ UnitsRun

\* The process id of a unit of an earlier session that ended without
\* clearing its marker (it was killed, or it ended by sys.exit in a stage).
StalePid == MaxUnits + 2

\* The tool starts with no marker or with the stale marker of an earlier
\* session.
InitStale ==
    marker \in {Absent, Record(StalePid)} /\ InitUnits /\ InitClients /\ InitRecorder /\ InitTranscribe /\ InitSummarize /\ InitResolve /\ InitStore

\* An invocation of toggle.
ToggleStep(c) ==
    \/ Begin(c, "toggle")
    \/ IrRead(c)
    \/ IrProbe(c)
    \/ IrClear(c)
    \/ TgInfo(c)
    \/ TgKill(c)
    \/ TgClear(c)
    \/ TgConfigOk(c)
    \/ TgConfigFail(c)
    \/ TgPopen(c)
    \/ WsOpen(c)
    \/ WsDump(c)
    \/ Echo(c)

\* An invocation of status.
StatusStep(c) ==
    \/ Begin(c, "status")
    \/ IrRead(c)
    \/ IrProbe(c)
    \/ IrClear(c)
    \/ StInfo(c)
    \/ Echo(c)

\* Toggles run one at a time (client 1 runs each to its end before the
\* next), while status may be asked at any moment (client 2).
NextPoll == (\E u \in Units : UnitStep(u)) \/ ToggleStep(1) \/ StatusStep(2)

SpecPoll == InitStale /\ [][NextPoll]_vars

\* One Recorder: a caller that may call start() and stop() in any order,
\* next to the driver thread.
RecorderStep ==
    \/ RStart
    \/ RStartDrain
    \/ RStartOpen
    \/ RStartDeviceError
    \/ RStartFlag
    \/ RStop
    \/ RStopClose
    \/ RStopDrain
    \/ RStopWrite
    \/ CbBegin
    \/ CbPut

SpecRecorder == Init /\ [][RecorderStep]_vars

\* One transcription with the OpenAI backend, for every file size around
\* the multiples of 24 MB and every short duration.
InitTranscribeApi ==
    /\ marker = Absent /\ InitUnits /\ InitClients /\ InitRecorder
    /\ TranscribeRequest(Sizes, 0..MaxDurationMs)
    /\ InitSummarize /\ InitResolve /\ InitStore

TranscribeStep ==
    \/ TrBegin
    \/ TrSingle
    \/ TrSingleFail
    \/ TrExport
    \/ TrExportFail
    \/ TrCall
    \/ TrCallFail
    \/ TrCleanup

SpecTranscribe == InitTranscribeApi /\ [][TranscribeStep]_vars

\* One summarization, for every transcript length of WordCounts.
InitSummarizeAll ==
    /\ marker = Absent /\ InitUnits /\ InitClients /\ InitRecorder /\ InitTranscribe
    /\ SummarizeRequest(WordCounts, Courses)
    /\ InitResolve /\ InitStore

SummarizeStep ==
    \/ SBegin
    \/ SSingle
    \/ SSingleFail
    \/ SChunk
    \/ SMap
    \/ SMapFail
    \/ SMerge
    \/ SMergeFail

SpecSummarize == InitSummarizeAll /\ [][SummarizeStep]_vars

\* summarize_transcript runs on one thread, which keeps running.
SpecSummarizeLive == SpecSummarize /\ WF_vars(SummarizeStep)

\* A chunked and an unchunked transcription next to a chunked and an
\* unchunked summarization.
InitChunked ==
    /\ marker = Absent /\ InitUnits /\ InitClients /\ InitRecorder
    /\ TranscribeRequest({24 * MB, 48 * MB}, {MaxDurationMs})
    /\ SummarizeRequest({SingleCallWords, 2 * CHUNK_WORDS}, {""})
    /\ InitResolve /\ InitStore

SpecChunked == InitChunked /\ [][TranscribeStep \/ SummarizeStep]_vars

\* One start of a recording, for every combination of options, schedule
\* and time of day.
InitStart ==
    /\ marker = Absent /\ InitUnits /\ InitClients /\ InitRecorder
    /\ InitTranscribe /\ InitSummarize /\ InitStore
    /\ StartRequest(GivenCourses, GivenTitles, GivenDates, Schedules, Nows)

StartStep ==
    \/ AResolve
    \/ AInferRaises
    \/ ALaunch
    \/ AWrite

SpecStart == InitStart /\ [][StartStep]_vars

\* Up to MaxCalls calls of the three functions of app/state.py, in any
\* order, on any earlier content of the file.
InitStoreAny ==
    /\ marker = Absent /\ InitUnits /\ InitClients /\ InitRecorder
    /\ InitTranscribe /\ InitSummarize /\ InitResolve
    /\ StoreStart(StoreContents)

StoreStep ==
    \/ KWrite
    \/ KRead
    \/ KClear

SpecStore == InitStoreAny /\ [][StoreStep]_vars

----------------------------------------------------------------------------
(* Properties *)

\* is_recording() has just returned to command c: raw, info, probe and tlog
\* are what the call read, probed and cleared.
JustReturned(c) ==
    \/ cpc[c] \in {"tg_info", "st_info", "tg_config"}
    \/ cpc[c] = "echo" /\ cmd[c] = "status" /\ active[c] = "no"

\* C1: a toggle whose is_recording() returned False and whose configuration
\* loaded launches exactly one unit and then writes a marker with that
\* unit's pid; a toggle whose is_recording() returned True goes on to send
\* one SIGTERM to the pid it reads from the marker, launches nothing and
\* writes nothing.
C1_ToggleDispatch ==
    /\ [](\A c \in Clients :
            (cmd[c] = "toggle" /\ cpc[c] = "echo") =>
                /\ active[c] \in {"yes", "no"}
                /\ active[c] = "no" =>
                      /\ child[c] \in Units
                      /\ upc[child[c]] # "notlaunched"
                      /\ tlog[c] = <<Event("launch", child[c]), Event("write", child[c])>>
                /\ active[c] = "yes" =>
                      /\ info[c].kind = "record"
                      /\ tlog[c] \in {<<Event("signal", info[c].pid)>>,
                                      <<Event("signal", info[c].pid), Event("clear", 0)>>})
    /\ [][\A c \in Clients :
            (cmd[c] = "toggle" /\ active[c] = "yes" /\ cpc[c] # "idle" /\ cpc'[c] = "idle")
                => cpc[c] = "echo"]_vars

\* The lifecycle phase of unit u.  A unit whose capture failed to start
\* is still counted as Recording while it notifies, clears and exits.
Phase(u) ==
    CASE upc[u] \in {"notlaunched", "exited", "killed"} -> "Idle"
      [] upc[u] \in {"boot", "start", "wait"} -> "Recording"
      [] upc[u] \in {"clear", "exit"} /\ fail[u] = "start" -> "Recording"
      [] OTHER -> "Finishing"

LifecycleTransitions ==
    {<<"Idle", "Recording">>, <<"Recording", "Finishing">>, <<"Finishing", "Idle">>,
     <<"Idle", "Idle">>, <<"Recording", "Recording">>, <<"Finishing", "Finishing">>}

\* C2 as claimed: every unit only moves Idle -> Recording -> Finishing ->
\* Idle, enters the pipeline only with the stop signal observed, and never
\* returns from Finishing to Recording.
C2_LifecycleAsClaimed ==
    [][\A u \in Units :
          /\ <<Phase(u), Phase(u)'>> \in LifecycleTransitions
          /\ Phase(u)' = "Finishing" => stopEvent'[u]]_vars

\* C2, amended: besides Idle -> Recording, Recording -> Finishing and
\* Finishing -> Idle a unit goes Recording -> Idle, and only when capture
\* failed to start or SIGTERM ended it before its handler was installed; a
\* unit enters the pipeline only with the stop signal observed and never
\* returns from Finishing to Recording.
C2_Lifecycle ==
    [][\A u \in Units :
          /\ <<Phase(u), Phase(u)'>> \in
                LifecycleTransitions \cup {<<"Recording", "Idle">>}
          /\ (Phase(u) = "Recording" /\ Phase(u)' = "Idle") =>
                \/ upc'[u] = "killed" /\ upc[u] = "boot"
                \/ upc'[u] = "exited" /\ fail[u] = "start"
          /\ Phase(u)' = "Finishing" => stopEvent'[u]]_vars

\* One unit has gone through the whole lifecycle and another has failed to
\* start capture.
C2_Witness ==
    \E u, v \in Units :
        /\ upc[u] = "exited" /\ fail[u] = "none" /\ cleared[u]
        /\ upc[v] = "exited" /\ fail[v] = "start"

\* C3: a unit that has ended after a pipeline stage failed has called
\* clear_state().
C3_MarkerClearedOnFailure ==
    \A u \in Units :
        (upc[u] = "exited" /\ fail[u] \in {"exc", "exit"}) => cleared[u]

\* C4: a unit that reached the pipeline and has ended has sent exactly one
\* notification, the success one if no stage failed and the failure one
\* otherwise.
C4_OneTerminalNotification ==
    \A u \in Units :
        (upc[u] = "exited" /\ fail[u] # "start") =>
            /\ Len(sent[u]) = 1
            /\ sent[u][1] = (IF fail[u] = "none" THEN "ok" ELSE "fail")

\* C5: after a failed stage the WAV file is where recorder.stop() put it (or
\* was never produced), and it is archived or deleted only when stop,
\* config, transcribe, summarize, persist and archive are all behind the
\* unit and none failed.
C5_AudioPreserved ==
    \A u \in Units :
        /\ fail[u] # "none" => wav[u] \in {"none", "temp"}
        /\ wav[u] \in ArchiveResults =>
              /\ fail[u] = "none"
              /\ upc[u] \notin {"stop", "config", "transcribe", "summarize",
                                "persist", "archive"}

\* A unit has ended after a stage failed, with its WAV file still in place.
C5_Witness ==
    \E u \in Units : upc[u] = "exited" /\ fail[u] = "exc" /\ wav[u] = "temp"

\* The step the claim puts before each step of the unit (load_config runs
\* between stop capture and transcribe).
StepBefore(s) ==
    CASE s = "wait" -> "start"
      [] s = "stop" -> "wait"
      [] s = "config" -> "stop"
      [] s = "transcribe" -> "config"
      [] s = "summarize" -> "transcribe"
      [] s = "persist" -> "summarize"
      [] s = "archive" -> "persist"
      [] s = "notify_ok" -> "archive"
      [] OTHER -> "none"

\* C6: a unit begins each of wait, stop capture, transcribe, summarize,
\* persist, archive and notify success only from the step before it, with
\* nothing failed; it reaches clear_state() on the success path only from
\* the success notification, and in every case with exactly one
\* notification sent.
C6_StepOrder ==
    [][\A u \in Units :
          upc'[u] # upc[u] =>
             /\ StepBefore(upc'[u]) # "none" =>
                   (upc[u] = StepBefore(upc'[u]) /\ fail'[u] = "none")
             /\ upc'[u] = "clear" =>
                   /\ Len(sent'[u]) = 1
                   /\ fail'[u] = "none" => (upc[u] = "notify_ok" /\ sent'[u] = <<"ok">>)
             /\ cleared'[u] /\ ~cleared[u] => upc[u] = "clear"]_vars

\* A unit has run every step and cleared the marker.
C6_Witness ==
    \E u \in Units :
        /\ upc[u] = "exit" /\ fail[u] = "none" /\ cleared[u]
        /\ sent[u] = <<"ok">> /\ wav[u] \in ArchiveResults

\* C7: is_recording() on a record: when the probe finds no such process it
\* returns False having called clear_state(), which leaves the marker
\* absent; when the probe succeeds or is refused for lack of permission it
\* returns True and has written nothing.
C7_IsActiveByProbe ==
    /\ [](\A c \in Clients :
            (JustReturned(c) /\ raw[c].kind = "record") =>
                /\ probe[c] \in {"ok", "esrch", "eperm"}
                /\ probe[c] = "esrch" =>
                      (active[c] = "no" /\ tlog[c] = <<Event("clear", 0)>>)
                /\ probe[c] \in {"ok", "eperm"} =>
                      (active[c] = "yes" /\ tlog[c] = << >>))
    /\ [][\A c \in Clients :
            /\ (cpc[c] = "ir_clear" /\ cpc'[c] # "ir_clear") => marker' = Absent
            /\ (cpc[c] = "ir_probe" /\ cpc'[c] # "ir_probe") => marker' = marker]_vars

\* is_recording() has returned True for a process it may not inspect.
C7_Witness ==
    \E c \in Clients :
        /\ cpc[c] = "tg_info" /\ raw[c] = Record(ForeignPid)
        /\ probe[c] = "eperm" /\ active[c] = "yes"

\* C8: whenever is_recording() has read corrupt marker content, the command
\* does not end in an error, and is_recording() returns False having
\* removed the marker.
C8_CorruptMarkerRecovered ==
    \A c \in Clients :
        raw[c] \in CorruptContents =>
            /\ outcome[c] # "error"
            /\ JustReturned(c) =>
                  (active[c] = "no" /\ tlog[c] = <<Event("clear", 0)>>)

\* In these positions info[c] is what get_recording_info() returned on the
\* marker content raw[c].
ReadPair(c) == cpc[c] \in {"ir_probe", "ir_clear", "idle"} \/ JustReturned(c)

\* C9: get_recording_info() never raises, returns None for a missing file
\* and for a file that cannot be parsed, and does not change the marker.
C9_ReadNeverRaises ==
    /\ [](\A c \in Clients :
            /\ info[c].kind # "raise"
            /\ (ReadPair(c) /\ raw[c].kind \in {"absent", "unparsable"}) =>
                  info[c] = NoneInfo)
    /\ [][\A c \in Clients :
            (cpc[c] \in {"ir_read", "st_info", "tg_info"} /\ cpc'[c] # cpc[c]) =>
                marker' = marker]_vars

\* is_recording() has returned on a marker file that is not YAML.
C9_Witness ==
    \E c \in Clients :
        /\ JustReturned(c) /\ raw[c] = Unparsable
        /\ info[c] = NoneInfo /\ marker = Unparsable

\* C10: the marker holds a record exactly when some unit has been launched
\* and has not yet cleared the marker.
C10_MarkerIffLaunchedNotCleared ==
    (marker.kind = "record") <=>
        (\E u \in Units : upc[u] # "notlaunched" /\ ~cleared[u])

\* The process toggle c is about to signal.
Target(c) == info[c].pid

\* C11: when toggle's os.kill(pid, SIGTERM) finds no such process, toggle
\* goes on to clear_state(), which leaves the marker absent, then to its
\* messages and a normal end, having launched nothing.
C11_StopSignalToDeadUnit ==
    /\ [][\A c \in Clients :
            /\ (cpc[c] = "tg_kill" /\ ProbePid(Target(c)) = "esrch" /\ cpc'[c] # "tg_kill")
                  => (cpc'[c] = "tg_clear" /\ upc' = upc /\ marker' = marker)
            /\ (cpc[c] = "tg_clear" /\ cpc'[c] # "tg_clear")
                  => (cpc'[c] = "echo" /\ marker' = Absent /\ upc' = upc)
            /\ (cpc[c] = "echo" /\ cpc'[c] # "echo") => outcome'[c] = "ok"]_vars
    /\ [](\A c \in Clients :
            (cpc[c] \in {"tg_clear", "echo"} /\ active[c] = "yes") => child[c] = 0)

\* A toggle found unit 1 alive, the unit ended before the signal, and the
\* toggle has removed the marker.
C11_Witness ==
    \E c \in Clients :
        /\ cmd[c] = "toggle" /\ cpc[c] = "echo" /\ active[c] = "yes"
        /\ tlog[c] = <<Event("signal", 1), Event("clear", 0)>>
        /\ upc[1] = "exited" /\ marker = Absent

\* C12: when toggle's signal is delivered, that step and the rest of the
\* command change neither the marker nor any unit's WAV file,
\* notifications, failure or clear_state() record, and move no unit along
\* (a unit is only ended when the signal finds no handler installed); the
\* command goes straight to its messages and ends.
C12_StopDoesNotWait ==
    /\ [][\A c \in Clients :
            /\ (cpc[c] = "tg_kill" /\ ProbePid(Target(c)) = "ok" /\ cpc'[c] # "tg_kill")
                  => /\ cpc'[c] = "echo"
                     /\ tlog'[c] = <<Event("signal", Target(c))>>
                     /\ marker' = marker
                     /\ <<wav', sent', cleared', fail'>> = <<wav, sent, cleared, fail>>
                     /\ \A u \in Units : upc'[u] # upc[u] =>
                           (u = Target(c) /\ upc[u] = "boot" /\ upc'[u] = "killed")
            /\ (cpc[c] = "echo" /\ cpc'[c] # "echo")
                  => (cpc'[c] = "idle" /\ marker' = marker /\ uvars' = uvars)]_vars
    /\ [](\A c \in Clients :
            (cmd[c] = "toggle" /\ cpc[c] = "echo" /\ tlog[c] = <<Event("signal", Target(c))>>)
                => child[c] = 0)

\* A toggle has signalled unit 1 and is at its messages while the unit has
\* not yet left stop_event.wait() and the marker still names it.
C12_Witness ==
    \E c \in Clients :
        /\ cmd[c] = "toggle" /\ cpc[c] = "echo" /\ tlog[c] = <<Event("signal", 1)>>
        /\ upc[1] = "wait" /\ stopEvent[1] /\ marker = Record(1)

\* C14: a SIGTERM delivered to a unit that has already observed one changes
\* nothing in the unit; a unit that entered the pipeline and has ended has
\* sent exactly one notification; and a toggle whose is_recording() read the
\* marker of a unit that is Finishing does not go on to launch.
C14_SingleShotStop ==
    /\ [][\A c \in Clients :
            /\ (cpc[c] = "tg_kill" /\ cpc'[c] = "echo" /\ Target(c) \in Units
                    /\ stopEvent[Target(c)])
                  => uvars' = uvars
            /\ (cmd[c] = "toggle" /\ cpc[c] # "tg_config" /\ cpc'[c] = "tg_config")
                  => ~ \E u \in Units : Phase(u)' = "Finishing" /\ raw'[c] = Record(u)]_vars
    /\ [](\A u \in Units :
            (upc[u] = "exited" /\ stopEvent[u] /\ fail[u] # "start") => Len(sent[u]) = 1)

\* Unit u is starting or capturing: launched, capture not failed, the
\* pipeline not begun.
Recording(u) == upc[u] \in {"boot", "start", "wait"}

NoUnitAlive == \A u \in Units : ~Alive(u)

\* A status command is at its messages, having found no active recording.
ReportsInactive(c) == cmd[c] = "status" /\ cpc[c] = "echo" /\ active[c] = "no"

\* The step on which is_recording() returns to status command c.
StatusAnswer(c) ==
    /\ cmd[c] = "status"
    /\ cpc[c] \in {"ir_read", "ir_probe", "ir_clear"}
    /\ cpc'[c] \notin {"ir_read", "ir_probe", "ir_clear"}

\* What C13 says of the time after the second toggle: a unit that has been
\* sent the stop signal ends; a status call answered when no unit is alive
\* reports inactive and leaves the marker absent; and from then on the
\* marker only comes back, and a unit only comes to life, with a launch.
AfterStop ==
    /\ \A u \in Units : (stopEvent[u] /\ Alive(u)) ~> ~Alive(u)
    /\ [][\A c \in Clients :
            /\ (StatusAnswer(c) /\ NoUnitAlive)
                  => (cpc'[c] = "echo" /\ active'[c] = "no" /\ marker' = Absent)
            /\ (marker = Absent /\ marker' # Absent) => \E d \in Clients : cpc[d] = "ws_open"
            /\ (NoUnitAlive /\ ~NoUnitAlive') => \E d \in Clients : cpc[d] = "tg_popen"]_vars

\* C13 as claimed: with commands run one after the other, a status call
\* reports inactive only when every unit launched so far has been sent the
\* stop signal of a second toggle; and AfterStop.
C13_AsClaimed ==
    /\ [](\A c \in Clients :
            ReportsInactive(c) =>
                \A u \in Launched : stopEvent[u] \/ upc[u] = "killed")
    /\ AfterStop

\* C13, amended: with commands run one after the other, a status call made
\* while the launched unit is starting or capturing reports active and does
\* not fail; and AfterStop.
C13_ToggleStatusScenario ==
    /\ [](\A c \in Clients : ReportsInactive(c) => \A u \in Units : ~Recording(u))
    /\ [][\A c \in Clients :
            (cmd[c] = "status" /\ cpc[c] # "idle" /\ cpc'[c] = "idle"
                /\ \E u \in Units : Recording(u))
               => (cpc[c] = "echo" /\ active[c] = "yes")]_vars
    /\ AfterStop

\* A status call reports inactive after unit 1 was stopped, ran its
\* pipeline and cleared the marker.
C13_Witness ==
    /\ ReportsInactive(1) /\ marker = Absent
    /\ upc[1] = "exited" /\ stopEvent[1] /\ fail[1] = "none" /\ cleared[1]
    /\ upc[2] = "notlaunched"

\* Unit u has the input stream open: recorder.start() has returned and
\* recorder.stop() has not.
Capturing(u) == upc[u] \in {"wait", "stop"}

\* C15 as claimed: with toggles run one at a time and nothing but the tool
\* writing the marker, at most one unit is capturing audio.
C15_AtMostOneCapturing == Cardinality({u \in Units : Capturing(u)}) <= 1

\* Unit u is alive and has not yet called clear_state().
Uncleared(u) == Alive(u) /\ ~cleared[u]

\* The marker names unit u, or the toggle that launched u is about to
\* write it (into the file it has opened, if that still is the marker).
Attended(u) ==
    \/ marker = Record(u)
    \/ \E c \in Clients :
          /\ child[c] = u
          /\ cpc[c] = "ws_open" \/ (cpc[c] = "ws_dump" /\ fdLive[c])

\* The state of the tool as commands run one after the other leave it: at
\* most one unit has yet to clear the marker and the marker is (about to
\* be) its own; a command that has read the marker and may still remove
\* it finds it as read, or gone; a toggle that found no recording finds
\* none to the moment it launches.
SequentialState ==
    /\ Cardinality({u \in Units : Uncleared(u)}) <= 1
    /\ \A u \in Units : Uncleared(u) => Attended(u)
    /\ \A c \in Clients :
          /\ cpc[c] \in {"ir_probe", "ir_clear"} => marker \in {raw[c], Absent}
          /\ cpc[c] \in {"tg_kill", "tg_clear"} => marker \in {info[c], Absent}
          /\ cpc[c] \in {"tg_config", "tg_popen"} => \A u \in Units : ~Uncleared(u)

\* Two commands are running.
Overlapping ==
    \E c, d \in Clients : c # d /\ cpc[c] # "idle" /\ cpc[d] # "idle"

\* C15, amended: as long as no status call overlaps a toggle either, the
\* tool stays in a SequentialState, in which at most one unit is capturing
\* audio.
C15_OneCommandAtATime ==
    /\ SequentialState
    /\ [](SequentialState => C15_AtMostOneCapturing)
    /\ [][(SequentialState /\ ~Overlapping) => SequentialState']_vars

\* Unit 2 is capturing after unit 1 has ended, and the marker names it.
C15_Witness ==
    /\ SequentialState
    /\ upc[1] = "exited" /\ Capturing(2) /\ marker = Record(2)
    /\ \A c \in Clients : cpc[c] = "idle"

\* The caller's thread, and not the driver's, takes this step.
CallerSteps == cbFrame' = cbFrame /\ rvars' # rvars

\* C16: stop() on a recorder that is not recording raises the not-recording
\* error; start() on a recorder that is recording raises the
\* already-recording error and leaves stream, queue and flag as they are;
\* a stop() that ends a session in which the callback delivered no block
\* raises the empty-recording error and writes no file.
C16_OutOfOrderCalls ==
    [][CallerSteps =>
         /\ (rpc = "idle" /\ ~rRecording /\ rCall' = "stop")
               => /\ rpc' = "idle" /\ rResult' = "NotRecording"
                  /\ <<rRecording, rStream, rQueue, rWav>>' = <<rRecording, rStream, rQueue, rWav>>
         /\ (rpc = "idle" /\ rRecording /\ rCall' = "start")
               => /\ rpc' = "idle" /\ rResult' = "AlreadyRecording"
                  /\ <<rRecording, rStream, rQueue, rDelivered>>'
                        = <<rRecording, rStream, rQueue, rDelivered>>
         /\ (rpc \in {"sp_drain", "sp_write"} /\ rpc' = "idle")
               => /\ rDelivered = << >> <=> rResult' = "EmptyRecording"
                  /\ rDelivered = << >> => rWav' = rWav]_vars

\* After a session that wrote a file, a second start()/stop() cycle has
\* ended with the empty-recording error.
C16_Witness ==
    /\ rpc = "idle" /\ rCall = "stop" /\ rResult = "EmptyRecording"
    /\ rWav # << >> /\ rDelivered = << >>

\* C17: the file stop() has written holds exactly the blocks the callback
\* delivered since the stream was started, in the order of delivery; up to
\* then every delivered block is in the queue or in stop()'s list, in
\* order; and with the stream closed no callback is running and nothing is
\* put on the queue.
C17_FramesInOrder ==
    /\ [](/\ (rpc = "idle" /\ rCall = "stop" /\ rResult = "ok") => rWav = rDelivered
          /\ rStream = "open" => rQueue = rDelivered
          /\ rpc \in {"sp_drain", "sp_write"} => rFrames \o rQueue = rDelivered
          /\ rStream = "none" => cbFrame = 0)
    /\ [][(rStream = "none" /\ rStream' = "none")
             => (rDelivered' = rDelivered /\ Len(rQueue') <= Len(rQueue))]_vars

\* The second session of a recorder has written blocks 3 and 4, after a
\* first session that delivered blocks 1 and 2.
C17_Witness ==
    /\ rpc = "idle" /\ rCall = "stop" /\ rResult = "ok"
    /\ rWav = <<3, 4>>

\* split_audio has returned its chunks for a file over the limit.
SplitReturned ==
    /\ tSize > 24 * MB
    /\ tpc \in {"calls", "cleanup"} \/ (tpc = "done" /\ tCalls # << >>)

\* C18: for a file over the limit split_audio makes floor(sizeMB/24) + 1
\* chunks; with d = floor(totalDurationMs / chunkCount), chunk k spans
\* [k*d, (k+1)*d) but for the last, which spans up to totalDurationMs; so
\* every millisecond of the audio lies in exactly one chunk.
C18_ChunkRanges ==
    SplitReturned =>
        LET n == (tSize \div (24 * MB)) + 1
            d == tDuration \div n
        IN  /\ Len(tPlan) = n
            /\ \A k \in 0..(n - 2) : tPlan[k + 1] = <<k * d, (k + 1) * d>>
            /\ tPlan[n] = <<(n - 1) * d, tDuration>>
            /\ \A k \in 1..n : tPlan[k][1] <= tPlan[k][2]
            /\ \A t \in 0..(tDuration - 1) :
                 Cardinality({k \in 1..n : tPlan[k][1] <= t /\ t < tPlan[k][2]}) = 1

\* 8 ms in 3 chunks: two of 2 ms and a last one of 4 ms.
C18_Witness ==
    SplitReturned /\ tPlan = <<<<0, 2>>, <<2, 4>>, <<4, 8>>>>

\* C19 as stated: the number of chunks is ceil(fileSizeMB / 24), exact
\* multiples of 24 MB included.
C19_AsClaimed ==
    SplitReturned =>
        Len(tPlan) = (tSize + 24 * MB - 1) \div (24 * MB)

\* C19: for a file over the limit the number of chunks is
\* ceil(fileSizeMB / 24) when the size is not an exact multiple of 24 MB,
\* and one more than that when it is.
C19_ChunkCount ==
    SplitReturned =>
        LET ceil == (tSize + 24 * MB - 1) \div (24 * MB)
        IN  Len(tPlan) = IF tSize % (24 * MB) = 0 THEN ceil + 1 ELSE ceil

\* A file of exactly 48 MB has been split into 3 chunks.
C19_Witness ==
    SplitReturned /\ tSize = 48 * MB /\ Len(tPlan) = 3

\* C20: a file of at most 24 MB, 24 MB included, is transcribed by one
\* call on the original file and nothing is split; for a larger file the
\* calls are made on chunk 0, 1, ... in this order, one per chunk, and the
\* text returned is the answers in this order with exactly one space
\* between two consecutive answers.
C20_CallsAndJoin ==
    /\ tSize <= 24 * MB =>
        /\ tPlan = << >> /\ tFiles = {} /\ ~tDir
        /\ Len(tCalls) <= 1
        /\ \A k \in 1..Len(tCalls) : tCalls[k].file = Original
        /\ tOutcome = "ok" =>
             Len(tCalls) = 1 /\ tCalls[1].ok /\ tText = tCalls[1].reply
    /\ tSize > 24 * MB =>
        /\ Len(tCalls) <= Len(tPlan)
        /\ \A k \in 1..Len(tCalls) : tCalls[k].file = k - 1
        /\ tOutcome \in {"returning", "ok"} =>
             LET n == Len(tPlan)
                 at[k \in 1..(n + 1)] ==
                     IF k = 1 THEN 1 ELSE at[k - 1] + Len(tCalls[k - 1].reply) + 1
             IN  /\ n = (tSize \div (24 * MB)) + 1
                 /\ Len(tCalls) = n
                 /\ \A k \in 1..n : tCalls[k].ok
                 /\ Len(tText) = at[n + 1] - 2
                 /\ \A k \in 1..n :
                      /\ \A j \in 1..Len(tCalls[k].reply) :
                           tText[at[k] + j - 1] = tCalls[k].reply[j]
                      /\ k < n => tText[at[k + 1] - 1] = " "

\* Three chunks answered "a", " b" and "": the text is "a  b ".
C20_Witness ==
    /\ tOutcome = "ok" /\ Len(tCalls) = 3
    /\ tText = <<"a", " ", " ", "b", " ">>

\* C21: once chunked transcription has ended, by a return or by an error
\* while a chunk was exported or transcribed, no chunk file is left and the
\* temporary directory is gone.
C21_TempFilesDeleted ==
    (tpc = "done" /\ tSize > 24 * MB) => (tFiles = {} /\ ~tDir)

\* C22: a call for a chunk of the transcription, for a chunk of the
\* summarization or for the merge that has failed is the last call of its
\* operation (no retry, no later chunk, no merge), and the operation has
\* ended without a result, a partial one included.
C22_FailedCallAborts ==
    /\ \A k \in 1..Len(tCalls) :
         ~tCalls[k].ok =>
            /\ k = Len(tCalls)
            /\ tpc \in {"cleanup", "done"}
            /\ tOutcome \notin {"returning", "ok"}
            /\ tText = << >>
    /\ \A k \in 1..Len(sCalls) :
         ~sCalls[k].ok =>
            /\ k = Len(sCalls)
            /\ spc = "done"
            /\ sOutcome \in LlmFailures
            /\ sResult = << >>

\* The second of three chunks of audio failed, and so did the merge of
\* three partial summaries.
C22_Witness ==
    /\ tpc = "done" /\ Len(tPlan) = 3 /\ Len(tCalls) = 2 /\ ~tCalls[2].ok
    /\ spc = "done" /\ Len(sPartials) = 3 /\ Len(sCalls) = 4 /\ ~sCalls[4].ok
    /\ sCalls[4].request.system = "MERGE_SYSTEM_PROMPT"

\* C23: a transcript of at most 10,000 words, 0 and 10,000 included, is
\* summarized by one call and is not chunked; a longer one of N words by
\* ceil((N - 500) / 7500) calls, one per chunk, and then one merge call,
\* which is never made before every chunk call has returned.
C23_CallCount ==
    LET n == (sWords - 500 + 7499) \div 7500
        merges == {k \in 1..Len(sCalls) : sCalls[k].request.system = "MERGE_SYSTEM_PROMPT"}
    IN  /\ sWords <= 10000 =>
            /\ sChunks = << >> /\ merges = {}
            /\ Len(sCalls) <= 1
            /\ sOutcome = "ok" => Len(sCalls) = 1 /\ sCalls[1].ok
        /\ sWords > 10000 =>
            /\ Len(sCalls) <= n + 1
            /\ merges \subseteq {n + 1}
            /\ \A k \in 1..Len(sCalls) :
                 k <= n => /\ sCalls[k].request.part = k
                           /\ sCalls[k].request.of = n
                           /\ (k < Len(sCalls) => sCalls[k].ok)
            /\ sOutcome = "ok" => Len(sCalls) = n + 1 /\ merges = {n + 1}

\* 23,001 words: four chunk calls and the merge call have returned.
C23_Witness ==
    /\ sWords = 23001 /\ sOutcome = "ok"
    /\ Len(sCalls) = 5 /\ Len(sChunks) = 4

\* _chunk_transcript has returned the chunks of a transcript of more than
\* 10,000 words, and no call has been made yet.
Planned == sWords > 10000 /\ spc = "map" /\ sCalls = << >>

\* C24: the chunk plan starts at word 0, every chunk but the last has
\* exactly 8000 words, chunk i+1 starts 500 words before the end of chunk
\* i and holds these 500 words, and the last chunk ends at the last word;
\* 12,000 words give the spans 0-8000 and 7500-12000.
C24_ChunkPlan ==
    (sWords > 10000 /\ spc \in {"map", "done"}) =>
        LET n == Len(sChunks) IN
        /\ n >= 1
        /\ sChunks[1][1] = 0
        /\ \A i \in 1..(n - 1) :
             /\ sChunks[i][2] - sChunks[i][1] = 8000
             /\ sChunks[i + 1][1] = sChunks[i][2] - 500
             /\ sChunks[i + 1][2] >= sChunks[i][2]
        /\ sChunks[n][2] = sWords
        /\ sWords = 12000 => sChunks = <<<<0, 8000>>, <<7500, 12000>>>>

\* The plan of a transcript of 12,000 words.
C24_Witness ==
    Planned /\ sWords = 12000 /\ sChunks = <<<<0, 8000>>, <<7500, 12000>>>>

\* C25: every word of the transcript is in one chunk or in two; the first
\* chunk followed by every later chunk without its first 500 words is the
\* transcript, word for word; and the loop of _chunk_transcript ends.
C25_NoWordLost ==
    /\ [](Planned =>
            LET n == Len(sChunks)
                piece(i) == IF i = 1 THEN sChunks[1]
                            ELSE <<sChunks[i][1] + 500, sChunks[i][2]>>
            IN  /\ \A w \in 0..(sWords - 1) :
                     Cardinality({i \in 1..n : sChunks[i][1] <= w /\ w < sChunks[i][2]})
                        \in {1, 2}
                /\ piece(1)[1] = 0
                /\ \A i \in 1..n : piece(i)[1] <= piece(i)[2]
                /\ \A i \in 1..(n - 1) : piece(i + 1)[1] = piece(i)[2]
                /\ piece(n)[2] = sWords)
    /\ (spc = "chunking" ~> spc = "map")

\* 15,501 words: the third chunk holds 500 words of the second and the one
\* word after them.
C25_Witness ==
    Planned /\ sWords = 15501 /\ sChunks[3] = <<15000, 15501>>

\* C26: the request for chunk i is fixed by the transcript, the title, the
\* course and i alone, whatever was answered for the chunks before it; the
\* merge request holds the stripped answer for every chunk, labelled with
\* its number, in increasing order.
C26_NoCrossChunkState ==
    sWords > 10000 =>
        LET n == (sWords - 500 + 7499) \div 7500
            header == IF sCourse = "" THEN <<<<"Lecture", Title>>>>
                      ELSE <<<<"Lecture", Title>>, <<"Course", sCourse>>>>
            upto(k) == IF (k - 1) * 7500 + 8000 > sWords THEN sWords
                       ELSE (k - 1) * 7500 + 8000
        IN  \A k \in 1..Len(sCalls) :
              IF k <= n
              THEN sCalls[k].request =
                     [system |-> "SYSTEM_PROMPT", header |-> header, part |-> k,
                      of |-> n, span |-> <<(k - 1) * 7500, upto(k)>>,
                      partials |-> << >>]
              ELSE /\ sCalls[k].request.system = "MERGE_SYSTEM_PROMPT"
                   /\ sCalls[k].request.header = header
                   /\ sCalls[k].request.partials =
                        [i \in 1..n |-> [chunk |-> i, summary |-> Strip(sCalls[i].reply)]]

\* Two chunks were answered differently, and the merge request was made.
C26_Witness ==
    /\ sWords = 12000 /\ Len(sCalls) = 3
    /\ sCalls[1].reply = <<"x">> /\ sCalls[2].reply = <<" ", "y", " ">>
    /\ sCalls[3].request.partials =
          <<[chunk |-> 1, summary |-> <<"x">>], [chunk |-> 2, summary |-> <<"y">>]>>

\* The entries of the schedule whose time is a range of valid times of day
\* and whose window contains the current time.
Matching ==
    {i \in 1..Len(aSchedule) :
        LET t == aSchedule[i].time IN
        /\ t.kind = "range"
        /\ t.sh \in 0..23 /\ t.sm \in 0..59 /\ t.eh \in 0..23 /\ t.em \in 0..59
        /\ (t.sh * 60 + t.sm - 15) * 60 <= aNow
        /\ aNow <= (t.eh * 60 + t.em + 15) * 60}

\* C27: a toggle that starts a recording uses a given course, title and
\* date as they are; a course that is not given is that of the first entry
\* whose window contains the current time, and the default course when no
\* entry matches or the time of an entry is malformed; the unit is
\* launched with the resolved values and the marker records them.
C27_ResolvedValues ==
    apc = "done" =>
        /\ aOutcome = "started"
        /\ aCourse # NotGiven => aResolved[1] = aCourse
        /\ aTitle # NotGiven => aResolved[2] = aTitle
        /\ aDate # NotGiven => aResolved[3] = aDate
        /\ aCourse = NotGiven =>
             aResolved[1] =
                IF Matching = {} THEN DefaultCourse
                ELSE LET first == CHOOSE i \in Matching : \A j \in Matching : i <= j
                     IN  Get(aSchedule[first].course, DefaultCourse)
        /\ aCmd = aResolved
        /\ aState = aResolved

\* C28: a read right after write(pid, course, title, date) returns a
\* record with these four values and nothing of what the file held before;
\* clear leaves no file and raises nothing, also when there is no file, so
\* that a second clear changes nothing.
C28_WriteReadClear ==
    /\ \A i \in 1..(Len(kLog) - 1) :
         (kLog[i].op = "write" /\ kLog[i + 1].op = "read") =>
            LET got == kLog[i + 1].info IN
            /\ ~got.none
            /\ got.dict["pid"] = kLog[i].args[1]
            /\ got.dict["course"] = kLog[i].args[2]
            /\ got.dict["title"] = kLog[i].args[3]
            /\ got.dict["date"] = kLog[i].args[4]
            /\ got.dict["note"] = NoValue
    /\ \A i \in 1..Len(kLog) :
         kLog[i].op = "clear" => (kLog[i].raised = "no" /\ kLog[i].after = NoFile)
    /\ \A i \in 1..(Len(kLog) - 1) :
         (kLog[i].op = "clear" /\ kLog[i + 1].op = "clear") =>
            kLog[i + 1].after = kLog[i].after

\* A record with a key more was read, then the course "123" and the title
\* "yes" were written and read back as strings.
C28_Witness ==
    /\ Len(kLog) = 3
    /\ kLog[1].op = "read" /\ kLog[1].info.dict["note"] # NoValue
    /\ kLog[2].op = "write"
    /\ kLog[3].op = "read"
    /\ kLog[3].info.dict["course"] = PyStr("123")
    /\ kLog[3].info.dict["title"] = PyStr("yes")

\* SIGTERM has been delivered to unit u.
Signalled(u) == stopEvent[u] \/ upc[u] = "killed"

\* C29: a SIGTERM delivered to a unit at any moment after its launch,
\* before the handler is installed included, leads to the wait returning,
\* the pipeline running and a terminal notification being sent.
C29_StopNeverLost ==
    \A u \in Units :
        Signalled(u) ~> (upc[u] \notin {"boot", "start", "wait", "killed"} /\ sent[u] # << >>)

\* C30: no toggle and no status command ends with an unhandled exception,
\* whatever the unit does between the command's is_recording() and its
\* next read of the marker.  (sys.exit(1) of load_config, which follows a
\* message, is no unhandled exception.)
C30_NoUnhandledError ==
    [][\A c \in Clients :
          (cpc[c] \notin {"idle", "tg_config"} /\ cpc'[c] = "idle")
             => outcome'[c] # "error"]_vars

\* Unit u executes clear_state() in this step.
Clears(u) == upc[u] = "clear" /\ upc'[u] = "exit"

\* C31: a unit only removes its own record.  When a unit executes
\* clear_state() the marker holds no record (it is absent, or the file is
\* still empty under the toggle that is writing it) or it holds that unit's
\* process id, so the marker that names a unit which is alive and capturing
\* is never removed by another unit.
C31_OwnRecordOnly ==
    [][\A u \in Units :
          Clears(u) =>
             /\ marker \in {Absent, Empty, Record(u)}
             /\ \A v \in Units \ {u} :
                   ~(Capturing(v) /\ marker = Record(v))]_vars

\* The unit launched last.
LastUnit == Cardinality(Launched)

\* Unit u failed to start capture and its process has ended.
StartFailedAndGone(u) == fail[u] = "start" /\ upc[u] = "exited"

\* is_recording() returns to command c in this step.
IsRecordingReturns(c) ==
    /\ cpc[c] \in {"ir_read", "ir_probe", "ir_clear"}
    /\ cpc'[c] \notin {"ir_read", "ir_probe", "ir_clear"}

\* C32: a unit whose recorder.start() raised runs no pipeline stage, sends
\* exactly one notification, a failure, clears the marker and exits with a
\* nonzero status; and once the toggle that launched it and the unit have
\* both ended, whichever ended first, the next is_recording() returns False
\* and leaves no marker.
C32_StartFailure ==
    /\ [](\A u \in Units :
            fail[u] = "start" =>
                /\ upc[u] \in {"clear", "exit", "exited"}
                /\ wav[u] = "none"
                /\ sent[u] = <<"fail">>
                /\ upc[u] \in {"exit", "exited"} => cleared[u]
                /\ ExitStatus(u) # 0)
    /\ [][\A u \in Units :
            (fail[u] = "start" /\ Clears(u)) => marker' = Absent]_vars
    /\ [][\A c \in Clients :
            (IsRecordingReturns(c) /\ LastUnit > 0 /\ StartFailedAndGone(LastUnit))
               => (active'[c] = "no" /\ marker' = Absent /\ outcome'[c] # "error")]_vars

\* Unit 1 failed to start and ended before the toggle that launched it
\* wrote the marker; the next is_recording() found the pid dead, removed
\* the marker and returned False.
C32_Witness ==
    /\ StartFailedAndGone(1) /\ cleared[1] /\ sent[1] = <<"fail">>
    /\ upc[2] = "notlaunched"
    /\ JustReturned(1) /\ active[1] = "no"
    /\ tlog[1] = <<Event("clear", 0)>>
    /\ marker = Absent

====
